---------------------------- MODULE Spec2Model ----------------------------
(***************************************************************************)
(* A model of the range-specification parser and the positional            *)
(* extraction engine of cutr (src/8-cutr/src/lib.rs).                      *)
(*                                                                         *)
(* A text is a sequence of characters, a character is a one-element        *)
(* string.  The character "d3" stands for a decimal digit outside ASCII    *)
(* (ARABIC-INDIC DIGIT THREE, U+0663): the regex class \d matches it,      *)
(* the integer parser of the standard library does not.                    *)
(* A message (a Rust String built by format!) is a sequence of pieces:     *)
(* literal pieces of the format string and the characters of the           *)
(* formatted arguments.                                                    *)
(***************************************************************************)
EXTENDS Integers, Sequences, FiniteSets, TLC

VARIABLES
    pc,         \* position of the program: "parse_pos", "returned",
                \* "extract", "extracted", "get_args", "panicked", "run",
                \* "lines", "failed", "done", "extract_all", "extracted_all",
                \* "threads"
    range,      \* the argument of parse_pos: the selection string
    consumed,   \* number of clauses the iterator has handed to the closure
    collected,  \* ranges collected so far by collect::<Result<_, _>>()
    result,     \* the value parse_pos returned
    mode,       \* the extractor applied: "bytes", "chars" or "fields"
    line,       \* the extractor's input: the characters of a line, or the
                \* fields of a record
    positions,  \* the extractor's position list
    selected,   \* the units the range walk selected
    output,     \* the extractor's result
    args,       \* the Args of the command line: files, delimiter,
                \* output_delimiter (-1: None)
    parsed,     \* what the value parser of the selection flag did
    config,     \* the Config get_args built
    file,       \* the loop of run over config.files: the number of
                \* files taken, and the number of fields of the records
                \* of the file being read (0: none was read)
    read,       \* the lines or records read so far, in order
    written,    \* the lines written so far, in order
    threads,    \* the extraction call of each thread that shares the
                \* position list: its arguments, its place in the list, the
                \* range it is iterating, what it has selected
    \* tailr (src/11-tailr/src/lib.rs)
    count,      \* the argument s of TakeValue::from_str: the count as
                \* written
    take_val,   \* the TakeValue, or the error, from_str returned
    total,      \* the number of lines or bytes of the file
    start,      \* what get_starting_index did
    \* calr (src/13-calr/src/lib.rs)
    month,      \* the argument of parse_month
    \* commr (src/10-commr/src/lib.rs)
    file1,      \* the lines of the first file
    file2,      \* the lines of the second file
    file1_iter, \* number of lines file1_iter has yielded
    file2_iter, \* number of lines file2_iter has yielded
    file1_line, \* the Option the loop holds for the first file
    file2_line, \* the Option the loop holds for the second file
    columns,    \* the calls of print_line_1, print_line_2, print_line_3 so
                \* far: the column and the line of each
    \* headr (src/04-headr/src/lib.rs)
    lines_to_read   \* the countdown of print_single_file

vars == <<pc, range, consumed, collected, result,
          mode, line, positions, selected, output,
          args, parsed, config, file, read, written, threads,
          count, take_val, total, start, month,
          file1, file2, file1_iter, file2_iter, file1_line, file2_line,
          columns, lines_to_read>>

parseVars == <<pc, range, consumed, collected, result>>
extractVars == <<mode, line, positions, selected, output>>
runVars == <<args, parsed, config, file, read, written, threads>>
tailVars == <<count, take_val, total, start>>
commVars == <<file1, file2, file1_iter, file2_iter, file1_line, file2_line,
              columns>>
toolVars == <<tailVars, month, commVars, lines_to_read>>
cutrVars == <<range, consumed, collected, mode, positions, selected, output,
              args, parsed, read, threads>>

---------------------------------------------------------------------------
(* Bounds of the model *)

MaxLen == 5         \* longest selection string
UsizeBits == 4      \* width of the unsigned machine word (scaled down)
MaxLineLen == 3     \* longest line (characters) or record (fields)
MaxOffset == 2      \* largest offset in a range handed to an extractor
MaxRanges == 2      \* longest position list handed to an extractor
MaxRunLen == 3      \* longest selection string of a run
MaxFiles == 2       \* most files of a run
MaxFileLines == 2   \* most lines or records read in a run
I64Bits == 5        \* width of i64, u64 and isize (scaled down)

RECURSIVE Pow2(_)
Pow2(n) == IF n = 0 THEN 1 ELSE 2 * Pow2(n - 1)

\* usize::MAX
USIZE_MAX == Pow2(UsizeBits) - 1

---------------------------------------------------------------------------
(* Characters *)

AsciiDigits == {"0", "1", "2", "3", "4", "5", "6", "7", "8", "9"}

\* what the regex class \d matches: every Unicode decimal digit
ReDigits == AsciiDigits \cup {"d3"}

\* the characters selection strings are drawn from
Alphabet == {"0", "1", "2", "-", ",", "+", "d3"}

DigitChars == <<"0", "1", "2", "3", "4", "5", "6", "7", "8", "9">>

\* char::to_digit(10) of an ASCII digit
DigitVal(c) == (CHOOSE i \in 1..10 : DigitChars[i] = c) - 1

RECURSIVE StringsUpTo(_, _)
StringsUpTo(alphabet, n) ==
    IF n = 0 THEN {<<>>}
    ELSE LET shorter == StringsUpTo(alphabet, n - 1)
         IN  shorter \cup {Append(s, c) : s \in shorter, c \in alphabet}

Front(s) == SubSeq(s, 1, Len(s) - 1)

---------------------------------------------------------------------------
(* Result<T, String> *)

Ok(v) == [ok |-> TRUE, val |-> v, err |-> <<>>]
ErrIndex(e) == [ok |-> FALSE, val |-> 0, err |-> e]
ErrList(e) == [ok |-> FALSE, val |-> <<>>, err |-> e]
Pending == [ok |-> FALSE, val |-> <<>>, err |-> <<>>]

\* Range<usize>: start..end
Range(s, e) == [start |-> s, end |-> e]

\* Option::None of a delimiter byte
None == -1

\* the command line, the value parser and get_args have not run
NoArgs == [files |-> 0, delimiter |-> None, output_delimiter |-> None]
NotParsed == [kind |-> "None", list |-> <<>>, msg |-> <<>>]
NoConfig == [delimiter |-> None, output_delimiter |-> None]
NoFile == [taken |-> 0, fields |-> 0]

\* Option::None of a line
NoLine == [some |-> FALSE, line |-> <<>>]

\* tailr, calr, commr and headr have not run
NoTakeValue == [tag |-> "None", k |-> 0]
NoStart == [kind |-> "Pending", i |-> 0]
TailIdle ==
    /\ count = <<>>
    /\ take_val = NoTakeValue
    /\ total = 0
    /\ start = NoStart
CalIdle == month = <<>>
CommIdle ==
    /\ file1 = <<>>
    /\ file2 = <<>>
    /\ file1_iter = 0
    /\ file2_iter = 0
    /\ file1_line = NoLine
    /\ file2_line = NoLine
    /\ columns = <<>>
HeadIdle == lines_to_read = 0
ToolsIdle == TailIdle /\ CalIdle /\ CommIdle /\ HeadIdle

\* the variables of cutr alone have their values of before a run
CutrIdle ==
    /\ range = <<>>
    /\ consumed = 0
    /\ collected = <<>>
    /\ mode = "none"
    /\ positions = <<>>
    /\ selected = <<>>
    /\ output = <<>>
    /\ args = NoArgs
    /\ parsed = NotParsed
    /\ read = <<>>
    /\ threads = <<>>

---------------------------------------------------------------------------
(* str::parse::<NonZeroUsize>() of the standard library *)

\* a value of the digits that wraps in the word
RECURSIVE CheckedValue_wrapping(_)
CheckedValue_wrapping(digits) ==
    IF digits = <<>> THEN 0
    ELSE (CheckedValue_wrapping(Front(digits)) * 10
              + DigitVal(digits[Len(digits)])) % Pow2(UsizeBits)

\* the digits' value, or -1 when it does not fit the word (checked_mul,
\* checked_add)
RECURSIVE CheckedValue(_)
CheckedValue(digits) ==
    IF digits = <<>> THEN 0
    ELSE LET v == CheckedValue(Front(digits))
         IN  IF v = -1 THEN -1
             ELSE LET w == v * 10 + DigitVal(digits[Len(digits)])
                  IN  IF w > USIZE_MAX THEN -1 ELSE w

\* the parsed number, or 0 for every error (empty, invalid digit, overflow,
\* zero): an optional leading "+" is accepted
parse_NonZeroUsize(input) ==
    LET digits == IF input # <<>> /\ input[1] = "+" THEN Tail(input) ELSE input
    IN  IF digits = <<>> THEN 0
        ELSE IF \E i \in 1..Len(digits) : digits[i] \notin AsciiDigits THEN 0
        ELSE IF CheckedValue(digits) = -1 THEN 0
        ELSE CheckedValue(digits)

\* usize + usize and usize - usize in the width of the word (the release
\* build wraps; the debug build panics where the result here differs from
\* the sum or difference)
usize_add(a, b) == (a + b) % Pow2(UsizeBits)
usize_sub(a, b) == (a - b + Pow2(UsizeBits)) % Pow2(UsizeBits)

---------------------------------------------------------------------------
(* parse_index *)

\* format!("illegal list value: {}", input)
value_error(input) == <<"illegal list value: ">> \o input

\* a pattern that lets a leading sign through: ^\+?\d*$
re_is_match_signed(input) ==
    \A i \in 1..Len(input) : input[i] \in ReDigits \/ (i = 1 /\ input[i] = "+")

\* Regex ^\d*$
re_is_match(input) == \A i \in 1..Len(input) : input[i] \in ReDigits

\* parse_index without the conversion to a zero-based index
parse_index_one_based(input) ==
    IF ~(\A i \in 1..Len(input) : input[i] \in ReDigits)
    THEN ErrIndex(value_error(input))
    ELSE LET n == parse_NonZeroUsize(input)
         IN  IF n = 0 THEN ErrIndex(value_error(input))
             ELSE Ok(n)

parse_index(input) ==
    IF ~re_is_match(input) THEN ErrIndex(value_error(input))
    ELSE LET n == parse_NonZeroUsize(input)
         IN  IF n = 0 THEN ErrIndex(value_error(input))
             ELSE Ok(usize_sub(n, 1))

---------------------------------------------------------------------------
(* parse_pos *)

\* Display of a usize
RECURSIVE to_decimal(_)
to_decimal(n) ==
    IF n < 10 THEN <<DigitChars[n + 1]>>
    ELSE to_decimal(n \div 10) \o <<DigitChars[(n % 10) + 1]>>

\* the range-order message with the zero-based indexes
order_error_zero_based(n1, n2) ==
    <<"First number in range (">> \o to_decimal(n1)
        \o <<") must be lower than the second number (">>
        \o to_decimal(n2) \o <<")">>

\* format!("First number in range ({}) must be lower than the second
\* number ({})", n1 + 1, n2 + 1)
order_error(n1, n2) ==
    <<"First number in range (">> \o to_decimal(usize_add(n1, 1))
        \o <<") must be lower than the second number (">>
        \o to_decimal(usize_add(n2, 1)) \o <<")">>

\* str::split(','): the clauses, an empty text has one empty clause
RECURSIVE split_from(_, _, _)
split_from(s, i, clause) ==
    IF i > Len(s) THEN <<clause>>
    ELSE IF s[i] = "," THEN <<clause>> \o split_from(s, i + 1, <<>>)
    ELSE split_from(s, i + 1, Append(clause, s[i]))

split(s) == split_from(s, 1, <<>>)

\* Regex ^(\d+)-(\d+)$: the position of the hyphen, 0 when there is no match
range_re_hyphen(val) ==
    LET hyphens == {k \in 2..(Len(val) - 1) :
                        /\ val[k] = "-"
                        /\ \A i \in 1..Len(val) : i # k => val[i] \in ReDigits}
    IN  IF hyphens = {} THEN 0 ELSE CHOOSE k \in hyphens : TRUE

\* the body without the order check
range_of_captures_unordered(val, k) ==
    LET r1 == parse_index(SubSeq(val, 1, k - 1))
        r2 == parse_index(SubSeq(val, k + 1, Len(val)))
    IN  IF ~r1.ok THEN [ok |-> FALSE, val |-> Range(0, 0), err |-> r1.err]
        ELSE IF ~r2.ok THEN [ok |-> FALSE, val |-> Range(0, 0), err |-> r2.err]
        ELSE Ok(Range(r1.val, r2.val + 1))

\* the body with the order check on the numbers before the endpoints are
\* validated
range_of_captures_order_first(val, k) ==
    LET r1 == parse_index(SubSeq(val, 1, k - 1))
        r2 == parse_index(SubSeq(val, k + 1, Len(val)))
        v1 == parse_NonZeroUsize(SubSeq(val, 1, k - 1))
        v2 == parse_NonZeroUsize(SubSeq(val, k + 1, Len(val)))
    IN  IF v1 >= v2 /\ v1 > 0
        THEN [ok |-> FALSE, val |-> Range(0, 0), err |-> order_error(v1 - 1, v2 - 1)]
        ELSE IF ~r1.ok THEN [ok |-> FALSE, val |-> Range(0, 0), err |-> r1.err]
        ELSE IF ~r2.ok THEN [ok |-> FALSE, val |-> Range(0, 0), err |-> r2.err]
        ELSE Ok(Range(r1.val, r2.val + 1))

\* the body of and_then(|captures| ...): the clause val matched range_re
\* with its hyphen at k
range_of_captures(val, k) ==
    LET r1 == parse_index(SubSeq(val, 1, k - 1))
        r2 == parse_index(SubSeq(val, k + 1, Len(val)))
    IN  IF ~r1.ok THEN [ok |-> FALSE, val |-> Range(0, 0), err |-> r1.err]
        ELSE IF ~r2.ok THEN [ok |-> FALSE, val |-> Range(0, 0), err |-> r2.err]
        ELSE IF r1.val >= r2.val
             THEN [ok |-> FALSE, val |-> Range(0, 0),
                   err |-> order_error(r1.val, r2.val)]
        ELSE Ok(Range(r1.val, usize_add(r2.val, 1)))

\* the closure with the error of the whole clause for an invalid endpoint
parse_clause_clause_error(val) ==
    LET r == parse_index(val)
        c == range_of_captures(val, range_re_hyphen(val))
    IN  IF r.ok THEN Ok(Range(r.val, r.val + 1))
        ELSE IF range_re_hyphen(val) = 0
             THEN [ok |-> FALSE, val |-> Range(0, 0), err |-> r.err]
        ELSE IF ~c.ok /\ c.err[1] = "illegal list value: "
             THEN [ok |-> FALSE, val |-> Range(0, 0), err |-> r.err]
        ELSE c

\* a closure that takes the clause N- for the range from N to the end
parse_clause_open_ended(val) ==
    LET r == parse_index(val)
        open == parse_index(Front(val))
    IN  IF r.ok THEN Ok(Range(r.val, r.val + 1))
        ELSE IF val # <<>> /\ val[Len(val)] = "-" /\ open.ok
             THEN Ok(Range(open.val, USIZE_MAX))
        ELSE IF range_re_hyphen(val) = 0
             THEN [ok |-> FALSE, val |-> Range(0, 0), err |-> r.err]
        ELSE range_of_captures(val, range_re_hyphen(val))

\* the closure |val| of map: one clause to one range or one error
parse_clause(val) ==
    LET r == parse_index(val)
    IN  IF r.ok THEN Ok(Range(r.val, usize_add(r.val, 1)))
        ELSE IF range_re_hyphen(val) = 0
             THEN [ok |-> FALSE, val |-> Range(0, 0), err |-> r.err]
        ELSE range_of_captures(val, range_re_hyphen(val))

\* a collect that puts the newest range first
push_front(list, r) == <<r>> \o list

\* what collect does with a range the closure produced
push(list, r) == Append(list, r)

\* map(closure).collect::<Result<_, _>>() over the clauses that are left
RECURSIVE collect(_, _)
collect(clauses, list) ==
    IF clauses = <<>> THEN Ok(list)
    ELSE LET r == parse_clause(Head(clauses))
         IN  IF r.ok THEN collect(Tail(clauses), push(list, r.val))
             ELSE ErrList(r.err)

\* parse_pos as a function of its argument
parse_pos(s) == collect(split(s), <<>>)

---------------------------------------------------------------------------
(* The parser as a state machine: map and collect pull one clause at a     *)
(* time from split and stop at the first error.                            *)

Inputs == StringsUpTo(Alphabet, MaxLen)

Init ==
    /\ pc = "parse_pos"
    /\ range \in Inputs
    /\ consumed = 0
    /\ collected = <<>>
    /\ result = Pending
    /\ mode = "none"
    /\ line = <<>>
    /\ positions = <<>>
    /\ selected = <<>>
    /\ output = <<>>
    /\ args = NoArgs
    /\ parsed = NotParsed
    /\ config = NoConfig
    /\ file = NoFile
    /\ read = <<>>
    /\ written = <<>>
    /\ threads = <<>>
    /\ ToolsIdle

\* the next clause parses: its range is appended
ClauseOk ==
    /\ pc = "parse_pos"
    /\ consumed < Len(split(range))
    /\ LET r == parse_clause(split(range)[consumed + 1])
       IN  /\ r.ok
           /\ collected' = push(collected, r.val)
    /\ consumed' = consumed + 1
    /\ UNCHANGED <<pc, range, result>>
    /\ UNCHANGED extractVars
    /\ UNCHANGED <<runVars, toolVars>>

\* a failing clause is skipped and the parse goes on with the next one
ClauseErr_skipped ==
    /\ pc = "parse_pos"
    /\ consumed < Len(split(range))
    /\ ~parse_clause(split(range)[consumed + 1]).ok
    /\ consumed' = consumed + 1
    /\ UNCHANGED <<pc, range, collected, result>>
    /\ UNCHANGED extractVars
    /\ UNCHANGED <<runVars, toolVars>>

\* a failing clause that is empty is skipped, another failing clause ends
\* the parse
ClauseErr_empty_skipped ==
    /\ pc = "parse_pos"
    /\ consumed < Len(split(range))
    /\ LET c == split(range)[consumed + 1]
           r == parse_clause(c)
       IN  /\ ~r.ok
           /\ result' = IF c = <<>> THEN result ELSE ErrList(r.err)
           /\ collected' = IF c = <<>> THEN collected ELSE <<>>
           /\ pc' = IF c = <<>> THEN pc ELSE "returned"
    /\ consumed' = consumed + 1
    /\ UNCHANGED range
    /\ UNCHANGED extractVars
    /\ UNCHANGED <<runVars, toolVars>>

\* the next clause fails: collect drops what it has and returns the error
ClauseErr ==
    /\ pc = "parse_pos"
    /\ consumed < Len(split(range))
    /\ LET r == parse_clause(split(range)[consumed + 1])
       IN  /\ ~r.ok
           /\ result' = ErrList(r.err)
    /\ consumed' = consumed + 1
    /\ collected' = <<>>
    /\ pc' = "returned"
    /\ UNCHANGED range
    /\ UNCHANGED extractVars
    /\ UNCHANGED <<runVars, toolVars>>

\* no clause is left: collect returns some of the ranges it was given
CollectOk_some_prefix ==
    /\ pc = "parse_pos"
    /\ consumed = Len(split(range))
    /\ \E k \in 0..Len(collected) : result' = Ok(SubSeq(collected, 1, k))
    /\ pc' = "returned"
    /\ UNCHANGED <<range, consumed, collected>>
    /\ UNCHANGED extractVars
    /\ UNCHANGED <<runVars, toolVars>>

\* no clause is left: collect returns the list
CollectOk ==
    /\ pc = "parse_pos"
    /\ consumed = Len(split(range))
    /\ result' = Ok(collected)
    /\ pc' = "returned"
    /\ UNCHANGED <<range, consumed, collected>>
    /\ UNCHANGED extractVars
    /\ UNCHANGED <<runVars, toolVars>>

Next == ClauseOk \/ ClauseErr \/ CollectOk

Spec == Init /\ [][Next]_vars

\* the numerals up to twice the size of the word, and the pairs of them
WordNumerals == {to_decimal(n) : n \in 0..(2 * Pow2(UsizeBits))}

WordInputs ==
    WordNumerals \cup {a \o <<"-">> \o b : a \in WordNumerals, b \in WordNumerals}

\* parse_pos is called with a clause of numerals around the largest usize
InitWord ==
    /\ pc = "parse_pos"
    /\ range \in WordInputs
    /\ consumed = 0
    /\ collected = <<>>
    /\ result = Pending
    /\ mode = "none"
    /\ line = <<>>
    /\ positions = <<>>
    /\ selected = <<>>
    /\ output = <<>>
    /\ args = NoArgs
    /\ parsed = NotParsed
    /\ config = NoConfig
    /\ file = NoFile
    /\ read = <<>>
    /\ written = <<>>
    /\ threads = <<>>
    /\ ToolsIdle

SpecWord == InitWord /\ [][Next]_vars

TypeOK ==
    /\ pc \in {"parse_pos", "returned", "extract", "extracted",
              "get_args", "panicked", "run", "lines", "failed", "done",
              "extract_all", "extracted_all", "threads"}
    /\ file.taken \in 0..(MaxFiles + 1)
    /\ file.fields \in Nat
    /\ Len(written) <= Len(read)
    /\ consumed \in 0..(MaxLen + 1)
    /\ mode \in {"none", "chars", "bytes", "fields", "all", "threads"}

---------------------------------------------------------------------------
(* The extractors *)
(* A str or String is the sequence of its UTF-8 bytes.  A character is a   *)
(* token: "a" (one byte), "E" (U+00E9, two bytes) and "FFFD" (the          *)
(* replacement character, three bytes).                                    *)

\* the characters lines are drawn from
LineChars == {"a", "E"}

\* the UTF-8 encoding of a character
utf8(c) ==
    IF c = "a" THEN <<97>>
    ELSE IF c = "E" THEN <<195, 169>>
    ELSE <<239, 191, 189>>

\* str::as_bytes: the bytes of the str
as_bytes(text) == text

IsContinuation(b) == b >= 128 /\ b <= 191
IsLead2(b) == b >= 194 /\ b <= 223
IsLead3(b) == b >= 224 /\ b <= 239

\* a chars that takes every byte for a character
RECURSIVE chars_per_byte(_)
chars_per_byte(text) ==
    IF text = <<>> THEN <<>>
    ELSE <<IF Head(text) < 128 THEN "a" ELSE "FFFD">> \o chars_per_byte(Tail(text))

\* str::chars().collect(): the characters of a str, which is well formed
RECURSIVE chars(_)
chars(text) ==
    IF text = <<>> THEN <<>>
    ELSE IF Head(text) < 128 THEN <<"a">> \o chars(Tail(text))
    ELSE IF IsLead2(Head(text)) THEN <<"E">> \o chars(Tail(Tail(text)))
    ELSE <<"FFFD">> \o chars(Tail(Tail(Tail(text))))

\* collect::<String>() of an iterator of characters
RECURSIVE collect_String(_)
collect_String(cs) ==
    IF cs = <<>> THEN <<>> ELSE utf8(Head(cs)) \o collect_String(Tail(cs))

\* a decoding that drops the ill-formed bytes
RECURSIVE from_utf8_dropping(_)
from_utf8_dropping(bytes) ==
    IF bytes = <<>> THEN <<>>
    ELSE LET b == Head(bytes)
         IN  IF b < 128
             THEN <<b>> \o from_utf8_dropping(Tail(bytes))
             ELSE IF IsLead2(b) /\ Len(bytes) >= 2 /\ IsContinuation(bytes[2])
             THEN <<b, bytes[2]>> \o from_utf8_dropping(Tail(Tail(bytes)))
             ELSE from_utf8_dropping(Tail(bytes))

\* String::from_utf8_lossy(..).into_owned(): a well-formed sequence is
\* kept, every other byte becomes the replacement character (the bytes are
\* those of the characters above: no sequence of three bytes starts in them)
RECURSIVE from_utf8_lossy(_)
from_utf8_lossy(bytes) ==
    IF bytes = <<>> THEN <<>>
    ELSE LET b == Head(bytes)
         IN  IF b < 128
             THEN <<b>> \o from_utf8_lossy(Tail(bytes))
             ELSE IF IsLead2(b) /\ Len(bytes) >= 2 /\ IsContinuation(bytes[2])
             THEN <<b, bytes[2]>> \o from_utf8_lossy(Tail(Tail(bytes)))
             ELSE utf8("FFFD") \o from_utf8_lossy(Tail(bytes))

\* a get that pads: the last unit stands in for a missing one
get_padded(units, i) ==
    IF i < Len(units) THEN <<units[i + 1]>>
    ELSE IF units = <<>> THEN <<>> ELSE <<units[Len(units)]>>

\* slice::get(i), StringRecord::get(i): an Option as a sequence of at most
\* one unit
get(units, i) == IF i < Len(units) THEN <<units[i + 1]>> ELSE <<>>

\* the offsets of a range visited from the last to the first
RECURSIVE range_filter_map_descending(_, _, _)
range_filter_map_descending(units, i, end) ==
    IF i >= end THEN <<>>
    ELSE get(units, end - 1) \o range_filter_map_descending(units, i, end - 1)

\* range.filter_map(|i| units.get(i)) for the range i..end
RECURSIVE range_filter_map(_, _, _)
range_filter_map(units, i, end) ==
    IF i >= end THEN <<>>
    ELSE get(units, i) \o range_filter_map(units, i + 1, end)

\* a selection that takes every offset of the ranges once, in ascending
\* order
flat_map_merged(units, pos) ==
    LET offs == {o \in 0..(Len(units) - 1) :
                    \E k \in 1..Len(pos) : pos[k].start <= o /\ o < pos[k].end}
        nth(i) == CHOOSE o \in offs : Cardinality({q \in offs : q < o}) = i - 1
    IN  [i \in 1..Cardinality(offs) |-> units[nth(i) + 1]]

\* pos.iter().cloned().flat_map(|range| ...)
RECURSIVE flat_map(_, _)
flat_map(units, pos) ==
    IF pos = <<>> THEN <<>>
    ELSE range_filter_map(units, Head(pos).start, Head(pos).end)
             \o flat_map(units, Tail(pos))

\* the characters extract_chars hands to collect
selected_chars(text, char_pos) == flat_map(chars(text), char_pos)

\* an extract_chars that takes the offsets for byte offsets
extract_chars_by_bytes(text, char_pos) ==
    from_utf8_lossy(flat_map(as_bytes(text), char_pos))

extract_chars(text, char_pos) == collect_String(selected_chars(text, char_pos))

\* the Vec selected of extract_bytes
selected_bytes(text, byte_pos) == flat_map(as_bytes(text), byte_pos)

extract_bytes(text, byte_pos) == from_utf8_lossy(selected_bytes(text, byte_pos))

\* an extract_fields that counts the fields from one
extract_fields_one_based(record, field_pos) ==
    flat_map(<<<<>>>> \o record, field_pos)

extract_fields(record, field_pos) == flat_map(record, field_pos)

---------------------------------------------------------------------------
(* The extractors applied to every line or record and every position list *)

Modes == {"bytes", "chars", "fields"}

\* the texts of the lines, as characters
Texts == StringsUpTo(LineChars, MaxLineLen)

\* the lines: the strs of the texts
Lines == {collect_String(t) : t \in Texts}

\* the fields of a record are strs
FieldTexts == {utf8("a"), utf8("E"), <<>>}

Records == StringsUpTo(FieldTexts, MaxLineLen)

Ranges == {Range(s, e) : s \in 0..MaxOffset, e \in 0..MaxOffset}

\* the lists of one range that reaches up to the last byte of the longest
\* line
LongRanges ==
    {<<Range(s, e)>> : s \in 0..(2 * MaxLineLen), e \in 0..(2 * MaxLineLen)}

PositionLists == StringsUpTo(Ranges, MaxRanges) \cup LongRanges

InitExtract ==
    /\ pc = "extract"
    /\ range = <<>>
    /\ consumed = 0
    /\ collected = <<>>
    /\ result = Pending
    /\ mode \in Modes
    /\ line \in (IF mode = "fields" THEN Records ELSE Lines)
    /\ positions \in PositionLists
    /\ selected = <<>>
    /\ output = <<>>
    /\ args = NoArgs
    /\ parsed = NotParsed
    /\ config = NoConfig
    /\ file = NoFile
    /\ read = <<>>
    /\ written = <<>>
    /\ threads = <<>>
    /\ ToolsIdle

ExtractChars ==
    /\ pc = "extract"
    /\ mode = "chars"
    /\ selected' = selected_chars(line, positions)
    /\ output' = extract_chars(line, positions)
    /\ pc' = "extracted"
    /\ UNCHANGED <<range, consumed, collected, result, mode, line, positions>>
    /\ UNCHANGED <<runVars, toolVars>>

ExtractBytes ==
    /\ pc = "extract"
    /\ mode = "bytes"
    /\ selected' = selected_bytes(line, positions)
    /\ output' = extract_bytes(line, positions)
    /\ pc' = "extracted"
    /\ UNCHANGED <<range, consumed, collected, result, mode, line, positions>>
    /\ UNCHANGED <<runVars, toolVars>>

ExtractFields ==
    /\ pc = "extract"
    /\ mode = "fields"
    /\ selected' = extract_fields(line, positions)
    /\ output' = selected'
    /\ pc' = "extracted"
    /\ UNCHANGED <<range, consumed, collected, result, mode, line, positions>>
    /\ UNCHANGED <<runVars, toolVars>>

NextExtract == ExtractChars \/ ExtractBytes \/ ExtractFields

SpecExtract == InitExtract /\ [][NextExtract]_vars

---------------------------------------------------------------------------
(* The three extractors applied to inputs of one length and one position   *)
(* list: a line of n bytes, a line of n characters, a record of n fields   *)

\* the byte that stands at the place of a character in the line of bytes
byte_of(c) == IF c = "a" THEN 97 ELSE 195

\* the three inputs made of a text: its characters as bytes, as the
\* characters of a str, as the fields of a record
SameLength(t) ==
    [bytes  |-> [k \in 1..Len(t) |-> byte_of(t[k])],
     chars  |-> collect_String(t),
     fields |-> [k \in 1..Len(t) |-> utf8(t[k])]]

InitShared ==
    /\ pc = "extract_all"
    /\ range = <<>>
    /\ consumed = 0
    /\ collected = <<>>
    /\ result = Pending
    /\ mode = "all"
    /\ line \in {SameLength(t) : t \in Texts}
    /\ positions \in PositionLists
    /\ selected = <<>>
    /\ output = <<>>
    /\ args = NoArgs
    /\ parsed = NotParsed
    /\ config = NoConfig
    /\ file = NoFile
    /\ read = <<>>
    /\ written = <<>>
    /\ threads = <<>>
    /\ ToolsIdle

\* extract_bytes, extract_chars and extract_fields are each called with
\* their input and the one position list
ExtractAll ==
    /\ pc = "extract_all"
    /\ selected' = [bytes  |-> selected_bytes(line.bytes, positions),
                    chars  |-> selected_chars(line.chars, positions),
                    fields |-> extract_fields(line.fields, positions)]
    /\ output' = [bytes  |-> extract_bytes(line.bytes, positions),
                  chars  |-> extract_chars(line.chars, positions),
                  fields |-> selected'.fields]
    /\ pc' = "extracted_all"
    /\ UNCHANGED <<range, consumed, collected, result, mode, line, positions>>
    /\ UNCHANGED <<runVars, toolVars>>

NextShared == ExtractAll

SpecShared == InitShared /\ [][NextShared]_vars

---------------------------------------------------------------------------
(* Extraction calls of two threads that share one position list.  A call   *)
(* is taken in the steps of its iterator chain: the next range of the list *)
(* is cloned, the clone is advanced offset by offset, the selection is     *)
(* collected.                                                              *)

Threads == {"t1", "t2"}

\* the calls a thread makes
ThreadCalls ==
    {[mode |-> "bytes",  line |-> utf8("a") \o utf8("E")],
     [mode |-> "chars",  line |-> utf8("E") \o utf8("a")],
     [mode |-> "fields", line |-> <<utf8("a"), utf8("E")>>]}

\* the position lists the threads share
SharedLists ==
    {<<r>> : r \in Ranges} \cup {<<r1, r2>> : r1 \in Ranges, r2 \in Ranges}

\* the units the extractor of the mode walks
units_of(m, input) ==
    IF m = "chars" THEN chars(input)
    ELSE IF m = "bytes" THEN as_bytes(input)
    ELSE input

\* what the extractor of the mode makes of its selection
collect_of(m, sel) ==
    IF m = "chars" THEN collect_String(sel)
    ELSE IF m = "bytes" THEN from_utf8_lossy(sel)
    ELSE sel

\* a call that has not taken a range yet
Called(c, pos) ==
    [mode |-> c.mode, line |-> c.line, pos |-> pos, k |-> 0,
     range |-> Range(0, 0), selected |-> <<>>, output |-> <<>>,
     state |-> "running"]

InitThreads ==
    /\ pc = "threads"
    /\ range = <<>>
    /\ consumed = 0
    /\ collected = <<>>
    /\ result = Pending
    /\ mode = "threads"
    /\ line = <<>>
    /\ positions \in SharedLists
    /\ selected = <<>>
    /\ output = <<>>
    /\ args = NoArgs
    /\ parsed = NotParsed
    /\ config = NoConfig
    /\ file = NoFile
    /\ read = <<>>
    /\ written = <<>>
    /\ \E c1 \in ThreadCalls, c2 \in ThreadCalls :
           threads = [t \in Threads |->
                         Called(IF t = "t1" THEN c1 ELSE c2, positions)]
    /\ ToolsIdle

threadRest == <<pc, range, consumed, collected, result, mode, line, selected,
                output, args, parsed, config, file, read, written, toolVars>>

\* pos.iter().cloned(): the thread takes a clone of the next range of the
\* list
NextRange(t) ==
    /\ threads[t].state = "running"
    /\ threads[t].range.start >= threads[t].range.end
    /\ threads[t].k < Len(positions)
    /\ threads' = [threads EXCEPT ![t].k = @ + 1,
                                  ![t].range = positions[threads[t].k + 1]]
    /\ UNCHANGED positions
    /\ UNCHANGED threadRest

\* a step that advances the range of the list itself
Step_in_place(t) ==
    /\ threads[t].state = "running"
    /\ threads[t].range.start < threads[t].range.end
    /\ threads' = [threads EXCEPT
           ![t].selected = @ \o get(units_of(threads[t].mode, threads[t].line),
                                    threads[t].range.start),
           ![t].range = Range(@.start + 1, @.end)]
    /\ positions' = [positions EXCEPT ![threads[t].k] =
                         Range(threads[t].range.start + 1, threads[t].range.end)]
    /\ UNCHANGED threadRest

\* range.filter_map(|i| units.get(i)): the clone yields its next offset,
\* the unit at the offset is selected when there is one
Step(t) ==
    /\ threads[t].state = "running"
    /\ threads[t].range.start < threads[t].range.end
    /\ threads' = [threads EXCEPT
           ![t].selected = @ \o get(units_of(threads[t].mode, threads[t].line),
                                    threads[t].range.start),
           ![t].range = Range(@.start + 1, @.end)]
    /\ UNCHANGED positions
    /\ UNCHANGED threadRest

\* the list has no more range: the selection is collected and returned
Return(t) ==
    /\ threads[t].state = "running"
    /\ threads[t].range.start >= threads[t].range.end
    /\ threads[t].k = Len(positions)
    /\ threads' = [threads EXCEPT
           ![t].output = collect_of(threads[t].mode, threads[t].selected),
           ![t].state = "returned"]
    /\ UNCHANGED positions
    /\ UNCHANGED threadRest

NextThreads ==
    \/ \E t \in Threads : NextRange(t)
    \/ \E t \in Threads : Step(t)
    \/ \E t \in Threads : Return(t)

SpecThreads == InitThreads /\ [][NextThreads]_vars

---------------------------------------------------------------------------
(* The program: get_args, then run.  The output goes to the standard       *)
(* output; the lines read are well-formed strs, the fields of the records  *)
(* hold no delimiter and no quote and are not empty, so that the record    *)
(* writer joins them as they are.                                          *)

\* a Result::unwrap that falls back to the empty list
unwrap_or_default(r) ==
    [kind |-> "Ok", list |-> IF r.ok THEN r.val ELSE <<>>, msg |-> <<>>]

\* Result::unwrap: the value, or a panic with the error in its message
unwrap(r) ==
    IF r.ok THEN [kind |-> "Ok", list |-> r.val, msg |-> <<>>]
    ELSE [kind |-> "Panic", list |-> <<>>,
          msg |-> <<"called Result::unwrap() on an Err value: ">> \o r.err]

parse_bytes(input) == unwrap(parse_pos(input))

parse_chars(input) == unwrap(parse_pos(input))

parse_fields(input) == unwrap(parse_pos(input))

\* the value parser of the flag given: -b, -c or -f
value_parser(flag, input) ==
    IF flag = "bytes" THEN parse_bytes(input)
    ELSE IF flag = "chars" THEN parse_chars(input)
    ELSE parse_fields(input)

\* the default of the input delimiter: the tab
TAB == 9

\* an output delimiter that is always the default of the input delimiter
output_delimiter_default(a) == TAB

\* args.output_delimiter.unwrap_or(args.delimiter)
output_delimiter_of(a) ==
    IF a.output_delimiter = None THEN a.delimiter ELSE a.output_delimiter

\* Writer::write_record with the delimiter d
RECURSIVE write_record(_, _)
write_record(fields, d) ==
    IF fields = <<>> THEN <<>>
    ELSE IF Len(fields) = 1 THEN fields[1]
    ELSE fields[1] \o <<d>> \o write_record(Tail(fields), d)

\* the selection strings of a run
RunSelections == StringsUpTo({"0", "1", "2", "-", ","}, MaxRunLen)

\* the delimiter bytes: the tab (the default) and the comma
Delimiters == {TAB, 44}

\* the Args of a run; the delimiters are read in field mode only, the
\* other modes run with the defaults
RunArgs == [files : 1..MaxFiles, delimiter : Delimiters,
            output_delimiter : {None} \cup Delimiters]

\* the lines of the files
RunLines == {utf8("a"), utf8("a") \o utf8("E"),
             utf8("E") \o utf8("a") \o utf8("a")}

\* the records of the files
RunRecords == {<<utf8("a")>>, <<utf8("a"), utf8("E")>>,
               <<utf8("E"), utf8("a")>>,
               <<utf8("E"), utf8("a"), utf8("a")>>}

InitRun ==
    /\ pc = "get_args"
    /\ range \in RunSelections
    /\ mode \in Modes
    /\ args \in IF mode = "fields" THEN RunArgs
                ELSE {a \in RunArgs : /\ a.delimiter = TAB
                                      /\ a.output_delimiter = None}
    /\ consumed = 0
    /\ collected = <<>>
    /\ result = Pending
    /\ line = <<>>
    /\ positions = <<>>
    /\ selected = <<>>
    /\ output = <<>>
    /\ parsed = NotParsed
    /\ config = NoConfig
    /\ file = NoFile
    /\ read = <<>>
    /\ written = <<>>
    /\ threads = <<>>
    /\ ToolsIdle

\* Args::parse and get_args: the value parser returns, the Config is built
GetArgs ==
    /\ pc = "get_args"
    /\ value_parser(mode, range).kind = "Ok"
    /\ parsed' = value_parser(mode, range)
    /\ positions' = parsed'.list
    /\ config' = [delimiter |-> args.delimiter,
                  output_delimiter |-> output_delimiter_of(args)]
    /\ pc' = "run"
    /\ UNCHANGED <<range, consumed, collected, result, mode, line, selected,
                   output, args, file, read, written>>
    /\ UNCHANGED <<threads, toolVars>>

\* Args::parse: the value parser panics, the process ends
GetArgsPanic ==
    /\ pc = "get_args"
    /\ value_parser(mode, range).kind = "Panic"
    /\ parsed' = value_parser(mode, range)
    /\ pc' = "panicked"
    /\ UNCHANGED <<range, consumed, collected, result, mode, line, positions,
                   selected, output, args, config, file, read, written>>
    /\ UNCHANGED <<threads, toolVars>>

\* run: the next file opens
OpenOk ==
    /\ pc = "run"
    /\ file.taken < args.files
    /\ file' = [taken |-> file.taken + 1, fields |-> 0]
    /\ pc' = "lines"
    /\ UNCHANGED <<range, consumed, collected, result, mode, line, positions,
                   selected, output, args, parsed, config, read, written>>
    /\ UNCHANGED <<threads, toolVars>>

\* run: the next file does not open, the error is printed and the loop
\* goes on
OpenErr ==
    /\ pc = "run"
    /\ file.taken < args.files
    /\ file' = [taken |-> file.taken + 1, fields |-> 0]
    /\ UNCHANGED <<pc, range, consumed, collected, result, mode, line,
                   positions, selected, output, args, parsed, config, read,
                   written>>
    /\ UNCHANGED <<threads, toolVars>>

\* a line is read and written without the units the extraction leaves out
\* when it leaves none: an empty result is not written
ReadLine_skip_empty ==
    /\ pc = "lines"
    /\ mode \in {"bytes", "chars"}
    /\ Len(read) < MaxFileLines
    /\ \E l \in RunLines :
           LET out == IF mode = "bytes" THEN extract_bytes(l, positions)
                      ELSE extract_chars(l, positions)
           IN  /\ line' = l
               /\ output' = out
               /\ read' = Append(read, l)
               /\ written' = IF out = <<>> THEN written ELSE Append(written, out)
    /\ UNCHANGED <<pc, range, consumed, collected, result, mode, positions,
                   selected, args, parsed, config, file>>
    /\ UNCHANGED <<threads, toolVars>>

\* run, Extract::Bytes and Extract::Chars: the next line is read, extracted
\* and written
ReadLine ==
    /\ pc = "lines"
    /\ mode \in {"bytes", "chars"}
    /\ Len(read) < MaxFileLines
    /\ \E l \in RunLines :
           LET out == IF mode = "bytes" THEN extract_bytes(l, positions)
                      ELSE extract_chars(l, positions)
           IN  /\ line' = l
               /\ output' = out
               /\ read' = Append(read, l)
               /\ written' = Append(written, out)
    /\ UNCHANGED <<pc, range, consumed, collected, result, mode, positions,
                   selected, args, parsed, config, file>>
    /\ UNCHANGED <<threads, toolVars>>

\* run, Extract::Fields: the next record is read, extracted and written;
\* the reader yields a record that has as many fields as the one before it
\* in the file
ReadRecord ==
    /\ pc = "lines"
    /\ mode = "fields"
    /\ Len(read) < MaxFileLines
    /\ \E r \in RunRecords :
           /\ file.fields \in {0, Len(r)}
           /\ file' = [file EXCEPT !.fields = Len(r)]
           /\ line' = r
           /\ output' = extract_fields(r, positions)
           /\ read' = Append(read, r)
           /\ written' = Append(written,
                                write_record(output', config.output_delimiter))
    /\ UNCHANGED <<pc, range, consumed, collected, result, mode, positions,
                   selected, args, parsed, config>>
    /\ UNCHANGED <<threads, toolVars>>

\* run: reading or writing fails (line?, record?, writeln!(..)?; a record
\* with another number of fields than the one before it), run returns the
\* error
RunErr ==
    /\ pc = "lines"
    /\ pc' = "failed"
    /\ UNCHANGED <<range, consumed, collected, result, mode, line, positions,
                   selected, output, args, parsed, config, file, read, written>>
    /\ UNCHANGED <<threads, toolVars>>

\* run: the file has no more lines
EndOfFile ==
    /\ pc = "lines"
    /\ pc' = "run"
    /\ UNCHANGED <<range, consumed, collected, result, mode, line, positions,
                   selected, output, args, parsed, config, file, read, written>>
    /\ UNCHANGED <<threads, toolVars>>

\* run: no file is left, run returns Ok(())
RunOk ==
    /\ pc = "run"
    /\ file.taken = args.files
    /\ pc' = "done"
    /\ UNCHANGED <<range, consumed, collected, result, mode, line, positions,
                   selected, output, args, parsed, config, file, read, written>>
    /\ UNCHANGED <<threads, toolVars>>

NextRun ==
    \/ GetArgs
    \/ GetArgsPanic
    \/ OpenOk
    \/ OpenErr
    \/ ReadLine
    \/ ReadRecord
    \/ RunErr
    \/ EndOfFile
    \/ RunOk

SpecRun == InitRun /\ [][NextRun]_vars

---------------------------------------------------------------------------
(* tailr: TakeValue::from_str and get_starting_index                       *)

I64_MIN == -Pow2(I64Bits - 1)
I64_MAX == Pow2(I64Bits - 1) - 1

\* TakeValue::PlusZero and TakeValue::TakeNum(k)
PlusZero == [tag |-> "PlusZero", k |-> 0]
TakeNum(k) == [tag |-> "TakeNum", k |-> k]
ParseTakeValueError == [tag |-> "Err", k |-> 0]

\* the number the ASCII digits denote
RECURSIVE digits_value(_)
digits_value(digits) ==
    IF digits = <<>> THEN 0
    ELSE digits_value(Front(digits)) * 10 + DigitVal(digits[Len(digits)])

\* str::parse::<i64>: an optional sign, then ASCII digits; a value outside
\* the i64 is an error
parse_i64(t) ==
    LET signed == t # <<>> /\ t[1] \in {"+", "-"}
        digits == IF signed THEN Tail(t) ELSE t
        v      == IF signed /\ t[1] = "-" THEN -digits_value(digits)
                  ELSE digits_value(digits)
    IN  IF digits = <<>> \/ \E i \in 1..Len(digits) : digits[i] \notin AsciiDigits
        THEN [ok |-> FALSE, v |-> 0]
        ELSE IF v < I64_MIN \/ v > I64_MAX THEN [ok |-> FALSE, v |-> 0]
        ELSE [ok |-> TRUE, v |-> v]

\* i64::wrapping_neg
wrapping_neg(v) == IF v = I64_MIN THEN I64_MIN ELSE -v

\* TakeValue::from_str
from_str(t) ==
    IF t = <<"+", "0">> THEN PlusZero
    ELSE IF t # <<>> /\ t[1] = "+"
         THEN IF ~parse_i64(t).ok THEN ParseTakeValueError
              ELSE TakeNum(parse_i64(t).v)
    ELSE IF ~parse_i64(t).ok THEN ParseTakeValueError
         ELSE TakeNum(wrapping_neg(parse_i64(t).v))

\* i64 as u64
as_u64(v) == (v + Pow2(I64Bits)) % Pow2(I64Bits)

\* Option<u64>, and the panic of a build with overflow checks
Some(i) == [kind |-> "Some", i |-> i]
NoIndex == [kind |-> "None", i |-> 0]
Panic == [kind |-> "Panic", i |-> 0]

\* i64::abs: of the most negative i64 it panics in a build with overflow
\* checks and returns the most negative i64 in a build without
abs(k) ==
    IF k = I64_MIN
    THEN {[panic |-> TRUE, v |-> 0], [panic |-> FALSE, v |-> I64_MIN]}
    ELSE {[panic |-> FALSE, v |-> IF k < 0 THEN -k ELSE k]}

\* get_starting_index: the outcomes the builds can produce
get_starting_index(tv, n) ==
    IF tv.tag = "PlusZero"
    THEN IF n = 0 THEN {NoIndex} ELSE {Some(as_u64(n - 1))}
    ELSE IF n = 0 \/ tv.k > n THEN {NoIndex}
    ELSE IF tv.k < 0
         THEN {IF a.panic THEN Panic
               ELSE IF a.v > n THEN Some(0)
               ELSE Some(as_u64(n + tv.k)) : a \in abs(tv.k)}
    ELSE {Some(as_u64(tv.k - 1))}

\* the counts as written: a sign or none, a numeral up to past the largest
\* i64; and some texts that are no counts
TakeStrings ==
    {sign \o to_decimal(n) : sign \in {<<>>, <<"+">>, <<"-">>},
                             n \in 0..(I64_MAX + 2)}
        \cup {<<>>, <<"+">>, <<"-">>, <<"+", "-", "1">>, <<"1", "d3">>,
              <<"+", "0", "0">>}

InitTail ==
    /\ pc = "from_str"
    /\ count \in TakeStrings
    /\ total \in 0..I64_MAX
    /\ take_val = NoTakeValue
    /\ start = NoStart
    /\ CalIdle
    /\ CommIdle
    /\ HeadIdle
    /\ CutrIdle
    /\ result = Pending
    /\ line = <<>>
    /\ config = NoConfig
    /\ file = NoFile
    /\ written = <<>>

tailRest == <<cutrVars, result, line, config, file, written, month, commVars,
              lines_to_read>>

\* parse_line, parse_byte: from_str returns a TakeValue
FromStrOk ==
    /\ pc = "from_str"
    /\ from_str(count).tag # "Err"
    /\ take_val' = from_str(count)
    /\ pc' = "take"
    /\ UNCHANGED <<count, total, start>>
    /\ UNCHANGED tailRest

\* parse_line, parse_byte: from_str fails, the count is illegal
FromStrErr ==
    /\ pc = "from_str"
    /\ from_str(count).tag = "Err"
    /\ take_val' = from_str(count)
    /\ pc' = "illegal"
    /\ UNCHANGED <<count, total, start>>
    /\ UNCHANGED tailRest

\* print_lines, print_bytes: get_starting_index(take_val, total)
GetStartingIndex ==
    /\ pc = "take"
    /\ start' \in get_starting_index(take_val, total)
    /\ pc' = "start"
    /\ UNCHANGED <<count, total, take_val>>
    /\ UNCHANGED tailRest

NextTail == FromStrOk \/ FromStrErr \/ GetStartingIndex

SpecTail == InitTail /\ [][NextTail]_vars

---------------------------------------------------------------------------
(* calr: parse_month                                                       *)

MONTH_NAMES == <<
    <<"J", "a", "n", "u", "a", "r", "y">>,
    <<"F", "e", "b", "r", "u", "a", "r", "y">>,
    <<"M", "a", "r", "c", "h">>,
    <<"A", "p", "r", "i", "l">>,
    <<"M", "a", "y">>,
    <<"J", "u", "n", "e">>,
    <<"J", "u", "l", "y">>,
    <<"A", "u", "g", "u", "s", "t">>,
    <<"S", "e", "p", "t", "e", "m", "b", "e", "r">>,
    <<"O", "c", "t", "o", "b", "e", "r">>,
    <<"N", "o", "v", "e", "m", "b", "e", "r">>,
    <<"D", "e", "c", "e", "m", "b", "e", "r">> >>

UpperChars == <<"A", "B", "C", "D", "E", "F", "G", "H", "I", "J", "K", "L", "M",
                "N", "O", "P", "Q", "R", "S", "T", "U", "V", "W", "X", "Y", "Z">>
LowerChars == <<"a", "b", "c", "d", "e", "f", "g", "h", "i", "j", "k", "l", "m",
                "n", "o", "p", "q", "r", "s", "t", "u", "v", "w", "x", "y", "z">>

\* str::to_lowercase, on the characters the inputs are made of
to_lowercase(t) ==
    [i \in 1..Len(t) |->
        IF \E j \in 1..Len(UpperChars) : UpperChars[j] = t[i]
        THEN LowerChars[CHOOSE j \in 1..Len(UpperChars) : UpperChars[j] = t[i]]
        ELSE t[i]]

\* str::starts_with
starts_with(t, prefix) ==
    /\ Len(prefix) <= Len(t)
    /\ SubSeq(t, 1, Len(prefix)) = prefix

\* u32::MAX in decimal
U32_MAX_DIGITS == <<"4", "2", "9", "4", "9", "6", "7", "2", "9", "5">>

RECURSIVE strip_zeros(_)
strip_zeros(digits) ==
    IF Len(digits) > 1 /\ digits[1] = "0" THEN strip_zeros(Tail(digits))
    ELSE digits

\* a > b for two digit strings of one length
RECURSIVE digits_greater(_, _)
digits_greater(a, b) ==
    IF a = <<>> THEN FALSE
    ELSE IF a[1] # b[1] THEN DigitVal(a[1]) > DigitVal(b[1])
    ELSE digits_greater(Tail(a), Tail(b))

\* the digits denote a number above u32::MAX
overflows_u32(digits) ==
    LET z == strip_zeros(digits)
    IN  \/ Len(z) > Len(U32_MAX_DIGITS)
        \/ Len(z) = Len(U32_MAX_DIGITS) /\ digits_greater(z, U32_MAX_DIGITS)

\* parse_int::<u32>: an optional plus sign, then ASCII digits; a number above
\* u32::MAX is an error. The value is kept as its digits without leading
\* zeros.
parse_int(val) ==
    LET digits == IF val # <<>> /\ val[1] = "+" THEN Tail(val) ELSE val
    IN  IF digits = <<>> \/ \E i \in 1..Len(digits) : digits[i] \notin AsciiDigits
        THEN [ok |-> FALSE, n |-> <<>>]
        ELSE IF overflows_u32(digits) THEN [ok |-> FALSE, n |-> <<>>]
        ELSE [ok |-> TRUE, n |-> strip_zeros(digits)]

\* (1..=12).contains(&n)
in_1_to_12(n) == Len(n) <= 2 /\ digits_value(n) \in 1..12

NotInRange(m) == <<"month \"">> \o m \o <<"\" not in the range 1 through 12">>
InvalidMonth(m) == <<"Invalid month \"">> \o m \o <<"\"">>

\* the numbers of the months whose lowercase name starts with lower
name_matches(lower) ==
    {i \in 1..Len(MONTH_NAMES) : starts_with(to_lowercase(MONTH_NAMES[i]), lower)}

parse_month(m) ==
    LET parsed_int == parse_int(m)
        matches    == name_matches(to_lowercase(m))
    IN  IF parsed_int.ok
        THEN IF in_1_to_12(parsed_int.n) THEN Ok(digits_value(parsed_int.n))
             ELSE ErrIndex(NotInRange(m))
        ELSE IF Cardinality(matches) = 1 THEN Ok(CHOOSE i \in matches : TRUE)
             ELSE ErrIndex(InvalidMonth(m))

Prefixes(t) == {SubSeq(t, 1, n) : n \in 0..Len(t)}

\* the month names as written, in lower case and in upper case, cut anywhere
MonthWords ==
    UNION {Prefixes(MONTH_NAMES[i]) \cup Prefixes(to_lowercase(MONTH_NAMES[i]))
           : i \in 1..Len(MONTH_NAMES)}
    \cup {<<"J", "U">>, <<"j", "U", "L">>, <<"M", "A", "Y">>, <<"m", "a", "y", "o">>,
          <<"f", "o", "o">>, <<"M", "a", "y", "x">>, <<"a", "p", "r", "1">>}

\* numbers around the range, at the end of the u32 and past it, and signed
MonthNumerals ==
    {to_decimal(n) : n \in 0..14}
    \cup {<<"0", "1">>, <<"0", "0", "7">>, <<"0", "1", "3">>, <<"0", "0">>,
          <<"1", "0", "0">>, <<"+", "3">>, <<"+", "0">>, <<"+">>, <<"-", "1">>,
          <<"1", "x">>, <<"d3">>,
          U32_MAX_DIGITS, Front(U32_MAX_DIGITS) \o <<"6">>,
          <<"0">> \o U32_MAX_DIGITS, <<"0">> \o Front(U32_MAX_DIGITS) \o <<"6">>,
          U32_MAX_DIGITS \o <<"0">>}

MonthStrings == MonthWords \cup MonthNumerals

InitCal ==
    /\ pc = "parse_month"
    /\ month \in MonthStrings
    /\ result = Pending
    /\ TailIdle
    /\ CommIdle
    /\ HeadIdle
    /\ CutrIdle
    /\ line = <<>>
    /\ config = NoConfig
    /\ file = NoFile
    /\ written = <<>>

calRest == <<cutrVars, line, config, file, written, tailVars, commVars,
             lines_to_read>>

\* the value parser of --month returns a month number
ParseMonthOk ==
    /\ pc = "parse_month"
    /\ parse_month(month).ok
    /\ result' = parse_month(month)
    /\ pc' = "month"
    /\ UNCHANGED month
    /\ UNCHANGED calRest

\* the value parser of --month returns an error, clap reports it
ParseMonthErr ==
    /\ pc = "parse_month"
    /\ ~parse_month(month).ok
    /\ result' = parse_month(month)
    /\ pc' = "usage"
    /\ UNCHANGED month
    /\ UNCHANGED calRest

NextCal == ParseMonthOk \/ ParseMonthErr

SpecCal == InitCal /\ [][NextCal]_vars

---------------------------------------------------------------------------
(* commr: the merge loop of run                                            *)

\* str::to_lowercase of a line of ASCII bytes
line_to_lowercase(l) ==
    [i \in 1..Len(l) |-> IF l[i] \in 65..90 THEN l[i] + 32 ELSE l[i]]

\* str::cmp: the byte strings in lexicographic order
RECURSIVE cmp(_, _)
cmp(a, b) ==
    IF a = <<>> /\ b = <<>> THEN "Equal"
    ELSE IF a = <<>> THEN "Less"
    ELSE IF b = <<>> THEN "Greater"
    ELSE IF a[1] < b[1] THEN "Less"
    ELSE IF a[1] > b[1] THEN "Greater"
    ELSE cmp(Tail(a), Tail(b))

compare_lines(line1, line2, insensitive) ==
    IF insensitive THEN cmp(line_to_lowercase(line1), line_to_lowercase(line2))
    ELSE cmp(line1, line2)

\* Iterator::next of the lines of a file, taken lines already read: the line
\* and the lines read after the call
next_line(f, taken) ==
    IF taken < Len(f) THEN [some |-> TRUE, line |-> f[taken + 1]] ELSE NoLine
next_iter(f, taken) == IF taken < Len(f) THEN taken + 1 ELSE taken

\* standard output after print_line_1, print_line_2, print_line_3
print_line_1(out, line1, cfg) ==
    IF ~cfg.suppress_col1 THEN Append(out, line1) ELSE out

print_line_2(out, line2, cfg) ==
    IF ~cfg.suppress_col2
    THEN IF cfg.suppress_col1 THEN Append(out, line2)
         ELSE Append(out, cfg.delimiter \o line2)
    ELSE out

print_line_3(out, line3, cfg) ==
    IF ~cfg.suppress_col3
    THEN IF cfg.suppress_col1 /\ cfg.suppress_col2 THEN Append(out, line3)
         ELSE IF cfg.suppress_col1 \/ cfg.suppress_col2
              THEN Append(out, cfg.delimiter \o line3)
         ELSE Append(out, cfg.delimiter \o cfg.delimiter \o line3)
    ELSE out

\* the call of print_line_1, print_line_2 or print_line_3 with a line
Column(k, l) == [col |-> k, line |-> l]

\* the lines of the input files: B, a, b
CommLines == {<<66>>, <<97>>, <<98>>}

RECURSIVE FilesUpTo(_, _)
FilesUpTo(lines, n) ==
    IF n = 0 THEN {<<>>}
    ELSE LET shorter == FilesUpTo(lines, n - 1)
         IN  shorter \cup {Append(f, l) : f \in shorter, l \in lines}

CommConfigs ==
    [suppress_col1 : BOOLEAN, suppress_col2 : BOOLEAN, suppress_col3 : BOOLEAN,
     insensitive : BOOLEAN, delimiter : {<<TAB>>}]

InitComm ==
    /\ pc = "run"
    /\ config \in CommConfigs
    /\ file1 \in FilesUpTo(CommLines, MaxFileLines)
    /\ file2 \in FilesUpTo(CommLines, MaxFileLines)
    /\ file1_iter = 0
    /\ file2_iter = 0
    /\ file1_line = NoLine
    /\ file2_line = NoLine
    /\ columns = <<>>
    /\ written = <<>>
    /\ TailIdle
    /\ CalIdle
    /\ HeadIdle
    /\ CutrIdle
    /\ result = Pending
    /\ line = <<>>
    /\ file = NoFile

commRest == <<cutrVars, result, line, file, tailVars, month, lines_to_read>>

\* run, up to the loop: both iterators give their first line
CommOpen ==
    /\ pc = "run"
    /\ file1_line' = next_line(file1, file1_iter)
    /\ file1_iter' = next_iter(file1, file1_iter)
    /\ file2_line' = next_line(file2, file2_iter)
    /\ file2_iter' = next_iter(file2, file2_iter)
    /\ pc' = "loop"
    /\ UNCHANGED <<config, file1, file2, columns, written>>
    /\ UNCHANGED commRest

\* (Some(line1), Some(line2)), Ordering::Less
CommLess ==
    /\ pc = "loop"
    /\ file1_line.some /\ file2_line.some
    /\ compare_lines(file1_line.line, file2_line.line, config.insensitive) = "Less"
    /\ written' = print_line_1(written, file1_line.line, config)
    /\ columns' = Append(columns, Column(1, file1_line.line))
    /\ file1_line' = next_line(file1, file1_iter)
    /\ file1_iter' = next_iter(file1, file1_iter)
    /\ UNCHANGED <<pc, config, file1, file2, file2_iter, file2_line>>
    /\ UNCHANGED commRest

\* (Some(line1), Some(line2)), Ordering::Greater
CommGreater ==
    /\ pc = "loop"
    /\ file1_line.some /\ file2_line.some
    /\ compare_lines(file1_line.line, file2_line.line, config.insensitive) = "Greater"
    /\ written' = print_line_2(written, file2_line.line, config)
    /\ columns' = Append(columns, Column(2, file2_line.line))
    /\ file2_line' = next_line(file2, file2_iter)
    /\ file2_iter' = next_iter(file2, file2_iter)
    /\ UNCHANGED <<pc, config, file1, file2, file1_iter, file1_line>>
    /\ UNCHANGED commRest

\* (Some(line1), Some(line2)), Ordering::Equal, with only the first iterator
\* advanced
CommEqual_first_only ==
    /\ pc = "loop"
    /\ file1_line.some /\ file2_line.some
    /\ compare_lines(file1_line.line, file2_line.line, config.insensitive) = "Equal"
    /\ written' = print_line_3(written, file1_line.line, config)
    /\ columns' = Append(columns, Column(3, file1_line.line))
    /\ file1_line' = next_line(file1, file1_iter)
    /\ file1_iter' = next_iter(file1, file1_iter)
    /\ UNCHANGED <<pc, config, file1, file2, file2_iter, file2_line>>
    /\ UNCHANGED commRest

\* (Some(line1), Some(line2)), Ordering::Equal
CommEqual ==
    /\ pc = "loop"
    /\ file1_line.some /\ file2_line.some
    /\ compare_lines(file1_line.line, file2_line.line, config.insensitive) = "Equal"
    /\ written' = print_line_3(written, file1_line.line, config)
    /\ columns' = Append(columns, Column(3, file1_line.line))
    /\ file1_line' = next_line(file1, file1_iter)
    /\ file1_iter' = next_iter(file1, file1_iter)
    /\ file2_line' = next_line(file2, file2_iter)
    /\ file2_iter' = next_iter(file2, file2_iter)
    /\ UNCHANGED <<pc, config, file1, file2>>
    /\ UNCHANGED commRest

\* (Some(line1), None)
CommOnlyFile1 ==
    /\ pc = "loop"
    /\ file1_line.some /\ ~file2_line.some
    /\ written' = print_line_1(written, file1_line.line, config)
    /\ columns' = Append(columns, Column(1, file1_line.line))
    /\ file1_line' = next_line(file1, file1_iter)
    /\ file1_iter' = next_iter(file1, file1_iter)
    /\ UNCHANGED <<pc, config, file1, file2, file2_iter, file2_line>>
    /\ UNCHANGED commRest

\* (None, Some(line2))
CommOnlyFile2 ==
    /\ pc = "loop"
    /\ ~file1_line.some /\ file2_line.some
    /\ written' = print_line_2(written, file2_line.line, config)
    /\ columns' = Append(columns, Column(2, file2_line.line))
    /\ file2_line' = next_line(file2, file2_iter)
    /\ file2_iter' = next_iter(file2, file2_iter)
    /\ UNCHANGED <<pc, config, file1, file2, file1_iter, file1_line>>
    /\ UNCHANGED commRest

\* (None, None) => break, then Ok(())
CommBreak ==
    /\ pc = "loop"
    /\ ~file1_line.some /\ ~file2_line.some
    /\ pc' = "done"
    /\ UNCHANGED <<config, written, commVars>>
    /\ UNCHANGED commRest

NextComm ==
    \/ CommOpen
    \/ CommLess
    \/ CommGreater
    \/ CommEqual
    \/ CommOnlyFile1
    \/ CommOnlyFile2
    \/ CommBreak

SpecComm == InitComm /\ [][NextComm]_vars

\* the process is scheduled until run returns
FairSpecComm == SpecComm /\ WF_vars(NextComm)

---------------------------------------------------------------------------
(* headr: print_single_file, line mode                                     *)

\* isize of a 64 bit target, scaled as the i64 is
ISIZE_MIN == -Pow2(I64Bits - 1)
ISIZE_MAX == Pow2(I64Bits - 1) - 1

\* isize::wrapping_add
wrapping_add(a, b) ==
    ((a + b - ISIZE_MIN) % Pow2(I64Bits)) + ISIZE_MIN

\* lines_to_read -= 1: the values the build can leave, "panic" where the
\* overflow check is compiled in
decrement(v) ==
    IF v = ISIZE_MIN THEN {[panic |-> TRUE, v |-> v], [panic |-> FALSE, v |-> ISIZE_MAX]}
    ELSE {[panic |-> FALSE, v |-> v - 1]}

LF == 10
CR == 13

\* BufRead::read_line at offset pos: the bytes through the next line feed, or
\* to the end of the file
read_line(content, pos) ==
    LET rest == SubSeq(content, pos + 1, Len(content))
        ends == {i \in 1..Len(rest) : rest[i] = LF}
    IN  IF ends = {} THEN rest
        ELSE SubSeq(rest, 1, CHOOSE i \in ends : \A j \in ends : i <= j)

\* str::lines: the pieces ended by a line feed, without the line feed and
\* without a carriage return before it; what follows the last line feed is a
\* line when it is not empty
RECURSIVE str_lines(_)
str_lines(t) ==
    IF t = <<>> THEN <<>>
    ELSE LET piece == read_line(t, 0)
             n     == Len(piece)
             body  == IF piece[n] # LF THEN piece
                      ELSE IF n > 1 /\ piece[n - 1] = CR THEN SubSeq(piece, 1, n - 2)
                      ELSE SubSeq(piece, 1, n - 1)
         IN  <<body>> \o str_lines(SubSeq(t, n + 1, Len(t)))

\* Iterator::take
take(seq, n) == SubSeq(seq, 1, IF n < Len(seq) THEN n ELSE Len(seq))

\* [&str]::join("\n")
RECURSIVE join(_)
join(seq) ==
    IF seq = <<>> THEN <<>>
    ELSE IF Len(seq) = 1 THEN seq[1]
    ELSE seq[1] \o <<LF>> \o join(Tail(seq))

\* std::cmp::max
max(a, b) == IF a >= b THEN a ELSE b

\* the contents of the input file: the letter a, line feeds, carriage returns
HeadFiles == StringsUpTo({97, LF, CR}, MaxLen)

\* -n: counts around the lengths of the files and the ends of the isize
HeadCounts == {ISIZE_MIN, ISIZE_MAX} \cup (-(MaxLen + 1))..(MaxLen + 1)

InitHead ==
    /\ pc = "read_line"
    /\ config \in [lines : HeadCounts]
    /\ file \in [content : HeadFiles, pos : {0}]
    /\ lines_to_read = config.lines
    /\ result = <<>>
    /\ line = <<>>
    /\ written = <<>>
    /\ TailIdle
    /\ CalIdle
    /\ CommIdle
    /\ CutrIdle

headRest == <<cutrVars, written, tailVars, month, commVars>>

\* a turn of the loop that reads a line and keeps it
HeadReadLine ==
    /\ pc = "read_line"
    /\ LET l == line \o read_line(file.content, file.pos)
       IN  /\ ~(Len(l) - Len(line) = 0 \/ (config.lines > 0 /\ lines_to_read <= 0))
           /\ file' = [file EXCEPT !.pos = file.pos + Len(l) - Len(line)]
           /\ result' = result \o l
           /\ line' = <<>>
           /\ \E d \in decrement(lines_to_read) :
                  /\ ~d.panic
                  /\ lines_to_read' = d.v
    /\ UNCHANGED <<pc, config>>
    /\ UNCHANGED headRest

\* the same turn in a build with overflow checks, the count at isize::MIN
HeadOverflow ==
    /\ pc = "read_line"
    /\ LET l == line \o read_line(file.content, file.pos)
       IN  /\ ~(Len(l) - Len(line) = 0 \/ (config.lines > 0 /\ lines_to_read <= 0))
           /\ file' = [file EXCEPT !.pos = file.pos + Len(l) - Len(line)]
           /\ result' = result \o l
           /\ line' = <<>>
           /\ \E d \in decrement(lines_to_read) : d.panic
    /\ pc' = "panic"
    /\ UNCHANGED <<config, lines_to_read>>
    /\ UNCHANGED headRest

\* the turn that leaves the loop: the end of the file, or enough lines read
HeadBreak ==
    /\ pc = "read_line"
    /\ LET l == line \o read_line(file.content, file.pos)
       IN  /\ Len(l) - Len(line) = 0 \/ (config.lines > 0 /\ lines_to_read <= 0)
           /\ file' = [file EXCEPT !.pos = file.pos + Len(l) - Len(line)]
           /\ line' = l
    /\ pc' = "read"
    /\ UNCHANGED <<config, result, lines_to_read>>
    /\ UNCHANGED headRest

\* if config.lines > 0 { return result }
HeadReturn ==
    /\ pc = "read"
    /\ config.lines > 0
    /\ pc' = "done"
    /\ UNCHANGED <<config, file, line, result, lines_to_read>>
    /\ UNCHANGED headRest

\* a count of zero or below: all but the last lines of what was read
HeadTake ==
    /\ pc = "read"
    /\ ~(config.lines > 0)
    /\ LET num_lines     == Len(str_lines(result))
           lines_to_take == max(0, wrapping_add(num_lines, config.lines))
           taken         == join(take(str_lines(result), lines_to_take))
       IN  result' = IF lines_to_take > 0 THEN taken \o <<LF>> ELSE taken
    /\ pc' = "done"
    /\ UNCHANGED <<config, file, line, lines_to_read>>
    /\ UNCHANGED headRest

NextHead ==
    \/ HeadReadLine
    \/ HeadOverflow
    \/ HeadBreak
    \/ HeadReturn
    \/ HeadTake

SpecHead == InitHead /\ [][NextHead]_vars

---------------------------------------------------------------------------
(* The grammar of selection strings, as the design states it *)

\* a decimal integer: one or more ASCII digits
IsNumeral(t) == t # <<>> /\ \A i \in 1..Len(t) : t[i] \in AsciiDigits

RECURSIVE NumeralValue(_)
NumeralValue(t) ==
    IF t = <<>> THEN 0 ELSE NumeralValue(Front(t)) * 10 + DigitVal(t[Len(t)])

\* a strictly positive decimal integer
IsPositiveNumeral(t) == IsNumeral(t) /\ NumeralValue(t) >= 1

\* a strictly positive decimal integer the machine word holds
IsValidIndex(t) == IsPositiveNumeral(t) /\ NumeralValue(t) <= USIZE_MAX

\* the clause has one hyphen, with text that holds no hyphen on both sides
Hyphens(c) == {k \in 2..(Len(c) - 1) :
                   c[k] = "-" /\ \A i \in 1..Len(c) : i # k => c[i] # "-"}
HasOneInnerHyphen(c) == Hyphens(c) # {}
Left(c) == SubSeq(c, 1, (CHOOSE k \in Hyphens(c) : TRUE) - 1)
Right(c) == SubSeq(c, (CHOOSE k \in Hyphens(c) : TRUE) + 1, Len(c))

\* N1-N2 with two decimal integers
IsPair(c) == HasOneInnerHyphen(c) /\ IsNumeral(Left(c)) /\ IsNumeral(Right(c))

\* digits-digits for the digits of every script
IsDigitPair(c) ==
    /\ HasOneInnerHyphen(c)
    /\ \A i \in 1..Len(Left(c)) : Left(c)[i] \in ReDigits
    /\ \A i \in 1..Len(Right(c)) : Right(c)[i] \in ReDigits

\* N1-N2 with two valid positive integers and N1 >= N2
IsInvertedPair(c) ==
    /\ IsPair(c)
    /\ IsValidIndex(Left(c))
    /\ IsValidIndex(Right(c))
    /\ NumeralValue(Left(c)) >= NumeralValue(Right(c))

\* a clause the grammar accepts
IsAcceptable(c) ==
    \/ IsValidIndex(c)
    \/ /\ IsPair(c)
       /\ IsValidIndex(Left(c))
       /\ IsValidIndex(Right(c))
       /\ NumeralValue(Left(c)) < NumeralValue(Right(c))

\* a clause that is neither a bare strictly positive decimal integer nor a
\* pair of strictly positive decimal integers
IsMalformed(c) ==
    /\ ~IsPositiveNumeral(c)
    /\ ~(IsPair(c) /\ IsPositiveNumeral(Left(c)) /\ IsPositiveNumeral(Right(c)))

\* the range a clause stands for
NoRange == Range(-1, -1)
ExpectedRange(c) ==
    IF IsNumeral(c) THEN Range(NumeralValue(c) - 1, NumeralValue(c))
    ELSE IF IsPair(c)
         THEN Range(NumeralValue(Left(c)) - 1, NumeralValue(Right(c)))
    ELSE NoRange

\* a numeral without its leading zeros
RECURSIVE Canonical(_)
Canonical(t) ==
    IF Len(t) > 1 /\ t[1] = "0" THEN Canonical(Tail(t)) ELSE t

IllegalPrefix == "illegal list value: "
OrderPrefix == "First number in range ("

IsIllegalValue(msg) == msg # <<>> /\ msg[1] = IllegalPrefix
IsRangeOrder(msg) == msg # <<>> /\ msg[1] = OrderPrefix

\* the range-order message that names the 1-based numbers of the clause
ExpectedOrderMessage(c) ==
    <<OrderPrefix>> \o Canonical(Left(c))
        \o <<") must be lower than the second number (">>
        \o Canonical(Right(c)) \o <<")">>

\* the text an illegal-list-value message carries for the clause: the first
\* invalid endpoint of a clause of the shape digits-digits, the clause
\* otherwise
ExpectedIllegalText(c) ==
    IF IsDigitPair(c)
    THEN IF ~IsValidIndex(Left(c)) THEN Left(c) ELSE Right(c)
    ELSE c

\* the error of a clause the grammar does not accept
ExpectedError(c) ==
    IF IsInvertedPair(c) THEN ExpectedOrderMessage(c)
    ELSE <<IllegalPrefix>> \o ExpectedIllegalText(c)

Clauses == split(range)
Returned == pc = "returned"
Accepted == pc = "returned" /\ result.ok
Rejected == pc = "returned" /\ ~result.ok

\* the leftmost clause the grammar does not accept (0: there is none)
FirstInvalid ==
    LET bad == {i \in 1..Len(Clauses) : ~IsAcceptable(Clauses[i])}
    IN  IF bad = {} THEN 0 ELSE CHOOSE i \in bad : \A j \in bad : i <= j

\* the leftmost malformed clause (0: there is none)
FirstMalformed ==
    LET bad == {i \in 1..Len(Clauses) : IsMalformed(Clauses[i])}
    IN  IF bad = {} THEN 0 ELSE CHOOSE i \in bad : \A j \in bad : i <= j

---------------------------------------------------------------------------
(* Claims about parse_pos, checked under Spec *)

\* C1: in every accepted selection string a bare clause N becomes the
\* zero-based half-open range [N-1, N) and a range clause N1-N2 becomes
\* [N1-1, N2).
C1_OneBasedToHalfOpen ==
    Accepted =>
        \A i \in 1..Len(Clauses) :
            LET c == Clauses[i]
            IN  /\ IsNumeral(c) =>
                    /\ i \in DOMAIN result.val
                    /\ result.val[i].start = NumeralValue(c) - 1
                    /\ result.val[i].end = NumeralValue(c)
                /\ IsPair(c) =>
                    /\ i \in DOMAIN result.val
                    /\ result.val[i].start = NumeralValue(Left(c)) - 1
                    /\ result.val[i].end = NumeralValue(Right(c))

\* an accepted string with a bare clause and a range clause
C1_Witness ==
    /\ Accepted
    /\ \E i \in 1..Len(Clauses) : IsNumeral(Clauses[i])
    /\ \E i \in 1..Len(Clauses) : IsPair(Clauses[i])

\* C2: the returned list has exactly one range per clause and the i-th
\* range is the one of the i-th clause: no sorting, merging or
\* deduplication.
C2_ClauseOrder ==
    Accepted =>
        /\ Len(result.val) = Len(Clauses)
        /\ \A i \in 1..Len(result.val) : result.val[i] = ExpectedRange(Clauses[i])

\* an accepted string whose ranges are out of numerical order ("2,1")
C2_Witness ==
    /\ Accepted
    /\ Len(result.val) >= 2
    /\ result.val[1].start > result.val[2].start

\* C3: every range of a returned list has start < end.
C3_StartBelowEnd ==
    Accepted =>
        \A i \in 1..Len(result.val) : result.val[i].start < result.val[i].end

\* an accepted string with a range clause of more than one position
C3_Witness ==
    /\ Accepted
    /\ \E i \in 1..Len(result.val) :
           IsPair(Clauses[i]) /\ result.val[i].end - result.val[i].start >= 2

C7_RangeOrderNamesOneBased ==
    \A i \in 1..consumed :
        IsInvertedPair(Clauses[i]) =>
            /\ Rejected
            /\ i = consumed
            /\ result.err = ExpectedOrderMessage(Clauses[i])

\* the parser failed at a range clause with N1 = N2
C7_Witness ==
    /\ Rejected
    /\ consumed >= 1
    /\ IsInvertedPair(Clauses[consumed])
    /\ NumeralValue(Left(Clauses[consumed])) = NumeralValue(Right(Clauses[consumed]))

\* C8 as stated: an illegal-list-value message carries the full text of the
\* clause the parser failed at.
C8_MessageCarriesClause ==
    (Rejected /\ IsIllegalValue(result.err)) =>
        Tail(result.err) = Clauses[consumed]

\* C8 as amended: an illegal-list-value message carries the full text of the
\* clause the parser failed at, unless the clause has the shape
\* digits-digits: then it carries the text of the first endpoint that is not
\* a valid positive integer.
C8_MessageCarriesClauseOrEndpoint ==
    (Rejected /\ IsIllegalValue(result.err)) =>
        Tail(result.err) = ExpectedIllegalText(Clauses[consumed])

\* the parser failed at a clause N1-N2 with a valid first and an invalid
\* second endpoint
C8_Witness ==
    /\ Rejected
    /\ IsIllegalValue(result.err)
    /\ IsDigitPair(Clauses[consumed])
    /\ IsValidIndex(Left(Clauses[consumed]))

\* C9: once the parser has taken a clause of the shape N1-N2 with an
\* endpoint that is not a valid positive integer, it has failed at that
\* clause with the illegal-list-value error, whatever the order of the
\* endpoints; every error is of exactly one of the two kinds.
C9_EndpointsBeforeOrder ==
    /\ \A i \in 1..consumed :
           (/\ IsDigitPair(Clauses[i])
            /\ (~IsValidIndex(Left(Clauses[i])) \/ ~IsValidIndex(Right(Clauses[i]))))
           => /\ Rejected
              /\ i = consumed
              /\ IsIllegalValue(result.err)
              /\ ~IsRangeOrder(result.err)
    /\ Rejected => (IsIllegalValue(result.err) # IsRangeOrder(result.err))

\* the parser failed at a clause such as "2-0": a valid first endpoint, a
\* zero second endpoint
C9_Witness ==
    /\ Rejected
    /\ consumed >= 1
    /\ IsPair(Clauses[consumed])
    /\ IsValidIndex(Left(Clauses[consumed]))
    /\ NumeralValue(Right(Clauses[consumed])) = 0

\* C10: a selection string with an invalid clause is rejected with the error
\* of its leftmost invalid clause, no range is returned and no clause to the
\* right of it is looked at.
C10_FailFast ==
    (Returned /\ FirstInvalid # 0) =>
        /\ ~result.ok
        /\ result.val = <<>>
        /\ collected = <<>>
        /\ consumed = FirstInvalid
        /\ result.err = ExpectedError(Clauses[FirstInvalid])

\* a rejected string with a valid clause before the first invalid one and
\* an invalid clause with another error after it
C10_Witness ==
    /\ Rejected
    /\ consumed >= 2
    /\ \E j \in (consumed + 1)..Len(Clauses) :
           /\ ~IsAcceptable(Clauses[j])
           /\ ExpectedError(Clauses[j]) # result.err

---------------------------------------------------------------------------
(* Claims about the extractors, checked under SpecExtract *)

Extracted == pc = "extracted"

\* the encoding of a text
RECURSIVE Encoding(_)
Encoding(t) == IF t = <<>> THEN <<>> ELSE utf8(Head(t)) \o Encoding(Tail(t))

\* the characters of a line: the text it is the encoding of
Characters(l) == CHOOSE t \in Texts : Encoding(t) = l

\* the number of characters of a String: its bytes that start a character
CharCount(s) == Cardinality({i \in 1..Len(s) : s[i] < 128 \/ s[i] > 191})

\* the units of the input in the mode of the call: the bytes or the
\* characters of the line, the fields of the record
InputUnits == IF mode = "chars" THEN Characters(line) ELSE line

\* the offsets of a range, ascending
Offsets(r) ==
    [k \in 1..(IF r.end > r.start THEN r.end - r.start ELSE 0) |-> r.start + k - 1]

\* the offsets of the ranges of a list, in stored order
RECURSIVE Visited(_)
Visited(pos) ==
    IF pos = <<>> THEN <<>> ELSE Offsets(Head(pos)) \o Visited(Tail(pos))

\* the units at the visited offsets that exist
ExpectedSelection(units, pos) ==
    LET InBounds(o) == o < Len(units)
        existing == SelectSeq(Visited(pos), InBounds)
    IN  [k \in 1..Len(existing) |-> units[existing[k] + 1]]

\* the number of offsets of the ranges below len
RECURSIVE ExpectedCount(_, _)
ExpectedCount(pos, len) ==
    IF pos = <<>> THEN 0
    ELSE Cardinality({o \in Head(pos).start..(Head(pos).end - 1) : o < len})
             + ExpectedCount(Tail(pos), len)

\* C4: the units an extractor selects are those at the offsets of the
\* ranges, the ranges visited in stored order and the offsets of a range in
\* ascending order, an offset without unit skipped; a range listed twice
\* emits its units twice.
C4_RangeWalk ==
    Extracted =>
        /\ selected = ExpectedSelection(InputUnits, positions)
        /\ mode = "fields" => output = selected
        /\ mode = "chars" => output = Encoding(selected)

\* an extraction with the same non-empty range listed twice, out of order
\* with a second unit
C4_Witness ==
    /\ Extracted
    /\ Len(positions) = 2
    /\ positions[1] = positions[2]
    /\ positions[1].end - positions[1].start >= 2
    /\ positions[1].end <= Len(InputUnits)
    /\ Len(selected) = 2 * (positions[1].end - positions[1].start)

\* C5: the number of units an extractor selects is the number of offsets of
\* the ranges that lie below the length of the input; the other offsets add
\* nothing.
C5_OutOfRangeSkipped ==
    Extracted =>
        /\ Len(selected) = ExpectedCount(positions, Len(InputUnits))
        /\ mode = "fields" => Len(output) = ExpectedCount(positions, Len(InputUnits))
        /\ mode = "chars" =>
               CharCount(output) = ExpectedCount(positions, Len(InputUnits))

\* an extraction with a range that ends beyond the input and a range that
\* lies wholly beyond it
C5_Witness ==
    /\ Extracted
    /\ \E i \in 1..Len(positions) :
           positions[i].start < Len(InputUnits) /\ positions[i].end > Len(InputUnits)
    /\ \E i \in 1..Len(positions) :
           positions[i].start >= Len(InputUnits) /\ positions[i].end > positions[i].start

\* C14: extract_chars with the one range [0, len) of a line of len
\* characters returns the line.
C14_FullRangeRoundTrip ==
    (Extracted /\ mode = "chars" /\ positions = <<Range(0, CharCount(line))>>)
        => output = line

\* the full range applied to a line of several characters, one of them of
\* two bytes
C14_Witness ==
    /\ Extracted
    /\ mode = "chars"
    /\ positions = <<Range(0, CharCount(line))>>
    /\ CharCount(line) >= 2
    /\ Len(line) > CharCount(line)

\* C15: every unit extract_chars selects is a whole character of the line,
\* the result is the encoding of the selected characters, and the range
\* [i, i+1) selects the character number i of the line.
C15_WholeCharacters ==
    (Extracted /\ mode = "chars") =>
        LET cs == Characters(line)
        IN  /\ \A k \in 1..Len(selected) :
                   \E i \in 1..Len(cs) : selected[k] = cs[i]
            /\ output = Encoding(selected)
            /\ \A i \in 0..(Len(cs) - 1) :
                   positions = <<Range(i, i + 1)>> => output = utf8(cs[i + 1])

\* the second character, of two bytes, selected from a line whose first
\* character has two bytes
C15_Witness ==
    /\ Extracted
    /\ mode = "chars"
    /\ positions = <<Range(1, 2)>>
    /\ CharCount(line) >= 2
    /\ line[1] = 195
    /\ output = <<195, 169>>

\* a byte of the selection that belongs to no well-formed sequence
IsStray(bs, i) ==
    /\ bs[i] >= 128
    /\ ~(IsLead2(bs[i]) /\ i < Len(bs) /\ IsContinuation(bs[i + 1]))
    /\ ~(IsContinuation(bs[i]) /\ i > 1 /\ IsLead2(bs[i - 1]))

\* the selection with every stray byte replaced by the replacement
\* character
RECURSIVE Replaced(_, _)
Replaced(bs, i) ==
    IF i > Len(bs) THEN <<>>
    ELSE (IF IsStray(bs, i) THEN <<239, 191, 189>> ELSE <<bs[i]>>)
             \o Replaced(bs, i + 1)

\* C16: extract_bytes returns a result for every line and position list; the
\* result is the selected bytes with every ill-formed byte replaced by the
\* replacement character.
C16_LossyDecoding ==
    /\ (pc = "extract" /\ mode = "bytes") => ENABLED ExtractBytes
    /\ (Extracted /\ mode = "bytes") => output = Replaced(selected, 1)

\* a range that ends between the two bytes of a character
C16_Witness ==
    /\ Extracted
    /\ mode = "bytes"
    /\ selected # <<>>
    /\ IsLead2(selected[Len(selected)])
    /\ Len(output) = Len(selected) + 2


\* what the extractor of the call selects with another position list
SelectedBy(pos) ==
    IF mode = "chars" THEN selected_chars(line, pos)
    ELSE IF mode = "bytes" THEN selected_bytes(line, pos)
    ELSE extract_fields(line, pos)

\* what the extractor of the call returns with another position list
OutputBy(pos) ==
    IF mode = "chars" THEN extract_chars(line, pos)
    ELSE IF mode = "bytes" THEN extract_bytes(line, pos)
    ELSE extract_fields(line, pos)

\* the selection string of the clause N1-N2
RangeClause(n1, n2) == to_decimal(n1) \o <<"-">> \o to_decimal(n2)

\* the selection string of the clauses N1,N1+1,...,N2
RECURSIVE SingleClauses(_, _)
SingleClauses(n1, n2) ==
    IF n1 >= n2 THEN to_decimal(n1)
    ELSE SingleClauses(n1, n2 - 1) \o <<",">> \o to_decimal(n2)

\* C26: the selection with a position list is the selection with any front
\* part of the list followed by the selection with the rest (for the
\* characters and fields returned, and for the bytes selected before they
\* are decoded); and the list of the clause N1-N2 selects what the list of
\* the clauses N1,N1+1,...,N2 selects.
C26_DistributesOverConcatenation ==
    Extracted =>
        /\ \A k \in 0..Len(positions) :
               LET A == SubSeq(positions, 1, k)
                   B == SubSeq(positions, k + 1, Len(positions))
               IN  /\ selected = SelectedBy(A) \o SelectedBy(B)
                   /\ mode # "bytes" => output = OutputBy(A) \o OutputBy(B)
        /\ (Len(positions) = 1 /\ positions[1].start + 1 < positions[1].end) =>
               LET n1 == positions[1].start + 1
                   n2 == positions[1].end
                   one == parse_pos(RangeClause(n1, n2))
                   each == parse_pos(SingleClauses(n1, n2))
               IN  /\ one.ok
                   /\ each.ok
                   /\ one.val = positions
                   /\ Len(each.val) = n2 - n1 + 1
                   /\ selected = SelectedBy(each.val)
                   /\ output = OutputBy(each.val)

\* an extraction with two ranges, the second before the first and both
\* inside the line, that both select something
C26_Witness ==
    /\ Extracted
    /\ Len(positions) = 2
    /\ positions[2].start < positions[1].start
    /\ SelectedBy(<<positions[1]>>) # <<>>
    /\ Len(SelectedBy(<<positions[2]>>)) >= 2

---------------------------------------------------------------------------
(* Claims about open-ended clauses, checked under Spec *)

\* a clause N- with a valid positive integer N
IsOpenEnded(c) == c # <<>> /\ c[Len(c)] = "-" /\ IsValidIndex(Front(c))

\* a list of acceptable clauses with an open-ended last clause
IsOpenEndedList ==
    /\ IsOpenEnded(Clauses[Len(Clauses)])
    /\ \A i \in 1..(Len(Clauses) - 1) : IsAcceptable(Clauses[i])

\* C13 as stated: a selection string with an open-ended last clause (such
\* as 1,3-5,9-) is accepted and normalized into a list of ranges.
C13_OpenEndedAccepted ==
    (Returned /\ IsOpenEndedList) =>
        /\ result.ok
        /\ Len(result.val) = Len(Clauses)

\* C13 as amended: a selection string with an open-ended last clause is
\* rejected with the illegal-list-value error that carries that clause; no
\* list of ranges is returned.
C13_OpenEndedRejected ==
    (Returned /\ IsOpenEndedList) =>
        /\ ~result.ok
        /\ result.val = <<>>
        /\ consumed = Len(Clauses)
        /\ result.err = <<IllegalPrefix>> \o Clauses[Len(Clauses)]

\* a returned parse of a list with an acceptable clause before the
\* open-ended one
C13_Witness ==
    /\ Rejected
    /\ IsOpenEndedList
    /\ Len(Clauses) >= 2


\* what parse_pos returns for the selection string, by the grammar: the
\* ranges of the clauses, or the error of the leftmost clause that is not
\* acceptable
ExpectedOutcome ==
    IF FirstInvalid = 0
    THEN Ok([k \in 1..Len(Clauses) |-> ExpectedRange(Clauses[k])])
    ELSE ErrList(ExpectedError(Clauses[FirstInvalid]))

\* C21: parse_pos is total and deterministic: from every selection string it
\* comes to return (while it runs there is a next clause, which parses or
\* fails, or the list is complete); what it returns is either a list of
\* ranges or an error, never both and never neither; and the outcome is a
\* function of the string alone, so that parsing the string again gives the
\* same outcome.
C21_TotalAndDeterministic ==
    /\ pc = "parse_pos" =>
           \/ /\ consumed < Len(split(range))
              /\ parse_clause(split(range)[consumed + 1]).ok \in BOOLEAN
           \/ consumed = Len(split(range))
    /\ Returned =>
           /\ result.ok => result.err = <<>>
           /\ ~result.ok => (result.val = <<>> /\ result.err # <<>>)
           /\ result = ExpectedOutcome
           /\ result = parse_pos(range)

\* a returned parse that failed at the second of three clauses
C21_Witness ==
    /\ Rejected
    /\ Len(Clauses) = 3
    /\ FirstInvalid = 2
    /\ result = parse_pos(range)

\* the clause is empty
IsEmptyClause(c) == c = <<>>

\* the leftmost empty clause (0: there is none)
FirstEmpty ==
    LET empty == {i \in 1..Len(Clauses) : IsEmptyClause(Clauses[i])}
    IN  IF empty = {} THEN 0 ELSE CHOOSE i \in empty : \A j \in empty : i <= j

\* C25 as stated: a selection string with an empty clause (the empty string,
\* a leading or trailing comma, two adjacent commas) makes parse_pos fail
\* with an illegal-list-value error, and a successful parse never yields an
\* empty list.
C25_EmptyClauseIsIllegalValue ==
    Returned =>
        /\ FirstEmpty # 0 => (~result.ok /\ IsIllegalValue(result.err))
        /\ result.ok => result.val # <<>>

\* C25 as amended: a selection string with an empty clause makes parse_pos
\* fail: with the illegal-list-value error of the empty clause when no
\* clause before it is invalid, with the error of the leftmost invalid
\* clause otherwise (a range-order error when that clause is an inverted
\* range); a successful parse never yields an empty list.
C25_EmptyClauseRejected ==
    Returned =>
        /\ FirstEmpty # 0 =>
               /\ ~result.ok
               /\ FirstInvalid <= FirstEmpty
               /\ FirstInvalid = FirstEmpty => result.err = <<IllegalPrefix>>
               /\ FirstInvalid < FirstEmpty =>
                      result.err = ExpectedError(Clauses[FirstInvalid])
        /\ result.ok => result.val # <<>>

\* a returned parse that reached an empty clause after a clause it accepted
C25_Witness ==
    /\ Rejected
    /\ FirstEmpty >= 2
    /\ FirstInvalid = FirstEmpty
    /\ consumed = FirstEmpty

---------------------------------------------------------------------------
(* Claims about the width of the indexes, checked under SpecWord *)

\* a numeral of the clause is larger than the largest usize
HasOverflowingNumeral(c) ==
    \/ IsNumeral(c) /\ NumeralValue(c) > USIZE_MAX
    \/ /\ IsPair(c)
       /\ \/ NumeralValue(Left(c)) > USIZE_MAX
          \/ NumeralValue(Right(c)) > USIZE_MAX

\* C24: the ranges of an accepted selection string are the ranges of its
\* numerals computed without wrapping, up to the numeral of the largest
\* usize: N - 1 and the end of the range stay within the word; a clause with
\* a numeral above the largest usize is rejected with the
\* illegal-list-value error.
C24_NoOverflow ==
    Returned =>
        /\ result.ok =>
               \A k \in 1..Len(result.val) :
                   /\ result.val[k] = ExpectedRange(Clauses[k])
                   /\ 0 <= result.val[k].start
                   /\ result.val[k].start < result.val[k].end
                   /\ result.val[k].end <= USIZE_MAX
        /\ (\E k \in 1..Len(Clauses) : HasOverflowingNumeral(Clauses[k])) =>
               (~result.ok /\ IsIllegalValue(result.err))

\* an accepted range that ends at the largest usize
C24_Witness ==
    /\ Accepted
    /\ IsPair(Clauses[1])
    /\ result.val[1].end = USIZE_MAX

---------------------------------------------------------------------------
(* Claims about the program, checked under SpecRun *)

\* the value parser of the selection flag has run
Parsed == pc # "get_args"

\* the selection string of the run has a clause the grammar does not accept
MalformedSelection == FirstInvalid # 0

\* C11 as stated: when the selection string is malformed, parse_bytes,
\* parse_chars and parse_fields hand their caller an Err value that carries
\* the message of the parse failure.
C11_FailureIsErrValue ==
    (Parsed /\ MalformedSelection) =>
        /\ parsed.kind = "Err"
        /\ parsed.msg = ExpectedError(Clauses[FirstInvalid])

\* C12: in a run whose selection string is malformed no input line is ever
\* read and no output line is ever written: the run ends while the arguments
\* are parsed, before a file is taken.
C12_NothingReadAfterBadSelection ==
    MalformedSelection =>
        /\ pc \in {"get_args", "panicked"}
        /\ read = <<>>
        /\ written = <<>>
        /\ file = NoFile

\* the arguments of a run with a malformed selection string were parsed
C12_Witness ==
    /\ MalformedSelection
    /\ Parsed
    /\ pc = "panicked"
    /\ args.files >= 2

\* the delimiter the claim expects between the fields written: the output
\* delimiter of the command line when one is given, the input delimiter
\* otherwise
ExpectedDelimiter ==
    IF args.output_delimiter # None THEN args.output_delimiter
    ELSE args.delimiter

\* the fields joined by a delimiter
RECURSIVE Joined(_, _)
Joined(fields, d) ==
    IF fields = <<>> THEN <<>>
    ELSE LET front == Front(fields)
             last == fields[Len(fields)]
         IN  IF front = <<>> THEN last ELSE Joined(front, d) \o <<d>> \o last

\* C18: in field mode every line written is the selected fields of the
\* record read, joined by the output delimiter when the run was given one
\* and by the input delimiter when it was not.
C18_OutputDelimiter ==
    (mode = "fields" /\ Parsed /\ pc # "panicked") =>
        /\ config.output_delimiter = ExpectedDelimiter
        /\ Len(written) = Len(read)
        /\ \A k \in 1..Len(written) :
               written[k] = Joined(ExpectedSelection(read[k], positions),
                                   ExpectedDelimiter)

\* a record of two selected fields written in a run without an output
\* delimiter and with an input delimiter that is not the default
C18_Witness ==
    /\ mode = "fields"
    /\ args.output_delimiter = None
    /\ args.delimiter = 44
    /\ \E k \in 1..Len(written) :
           /\ Len(ExpectedSelection(read[k], positions)) >= 2
           /\ \E i \in 1..Len(written[k]) : written[k][i] = 44

\* what the extraction of the mode leaves of a line
ExpectedLine(l) ==
    IF mode = "bytes" THEN Replaced(ExpectedSelection(l, positions), 1)
    ELSE Encoding(ExpectedSelection(Characters(l), positions))

\* C19: in bytes and chars mode the lines written are the extractions of the
\* lines read, one for each line read and in the order read; a line shorter
\* than the ranges ask for gives a shorter or empty line, and the lines
\* after it are still read and written.
C19_OneLinePerLine ==
    (mode \in {"bytes", "chars"} /\ Parsed /\ pc # "panicked") =>
        /\ Len(written) = Len(read)
        /\ \A k \in 1..Len(written) :
               /\ written[k] = ExpectedLine(read[k])
               /\ mode = "chars" =>
                      CharCount(written[k]) <= Len(Visited(positions))
        /\ (pc = "lines" /\ Len(read) < MaxFileLines) => ENABLED ReadLine

\* a finished run that wrote an empty line for a line shorter than the
\* ranges ask for and went on to write the next line
C19_Witness ==
    /\ mode \in {"bytes", "chars"}
    /\ pc = "done"
    /\ Len(read) >= 2
    /\ read[1] # <<>>
    /\ written[1] = <<>>
    /\ written[2] # <<>>

---------------------------------------------------------------------------
(* Claims about the three extractors together, checked under SpecShared *)

\* the offsets the one policy selects of an input of n units: those of the
\* ranges in stored order, each range ascending, that are below n
SharedOffsets(n) ==
    LET InBounds(o) == o < n
    IN  SelectSeq(Visited(positions), InBounds)

\* the units of an input at the offsets
UnitsAt(units, offsets) == [k \in 1..Len(offsets) |-> units[offsets[k] + 1]]

\* C17: called with the same position list and inputs of the same length,
\* extract_bytes, extract_chars and extract_fields select the units at the
\* same offsets, in the same order; of a record of three fields the list
\* [[1, 3)] selects the second and the third field.
C17_SharedPolicy ==
    pc = "extracted_all" =>
        LET n == Len(line.fields)
        IN  /\ Len(line.bytes) = n
            /\ Len(chars(line.chars)) = n
            /\ selected.bytes = UnitsAt(line.bytes, SharedOffsets(n))
            /\ selected.chars = UnitsAt(chars(line.chars), SharedOffsets(n))
            /\ selected.fields = UnitsAt(line.fields, SharedOffsets(n))
            /\ (n = 3 /\ positions = <<Range(1, 3)>>) =>
                   output.fields = <<line.fields[2], line.fields[3]>>

\* the three extractors have selected the second and third unit of inputs
\* of three units that are not all alike
C17_Witness ==
    /\ pc = "extracted_all"
    /\ Len(line.fields) = 3
    /\ positions = <<Range(1, 3)>>
    /\ line.fields[2] # line.fields[3]
    /\ Len(selected.bytes) = 2
    /\ Len(selected.chars) = 2
    /\ Len(selected.fields) = 2

---------------------------------------------------------------------------
(* Claims about a shared position list, checked under SpecThreads *)

\* the result of a call made alone
Alone(c) ==
    IF c.mode = "bytes" THEN extract_bytes(c.line, c.pos)
    ELSE IF c.mode = "chars" THEN extract_chars(c.line, c.pos)
    ELSE extract_fields(c.line, c.pos)

\* a thread is inside a range, with a unit selected
MidRange(t) ==
    /\ threads[t].state = "running"
    /\ threads[t].range.start < threads[t].range.end
    /\ threads[t].selected # <<>>

\* C20: however the extraction calls of the threads interleave, the shared
\* position list stays the list each call was given, and each call that
\* returns returns what the same call returns when it is made alone.
C20_SharedListIsSafe ==
    \A t \in DOMAIN threads :
        /\ positions = threads[t].pos
        /\ threads[t].state = "returned" => threads[t].output = Alone(threads[t])

\* one thread has returned a selection of a list of two ranges that the
\* other thread, in another mode, is in the middle of
C20_Witness ==
    /\ pc = "threads"
    /\ Len(positions) = 2
    /\ \E t \in Threads, u \in Threads :
           /\ threads[t].state = "returned"
           /\ threads[t].output # <<>>
           /\ threads[t].mode # threads[u].mode
           /\ MidRange(u)
           /\ threads[u].k = 1

---------------------------------------------------------------------------
(* Claims about tailr, checked under SpecTail *)

\* the index of the tested table (-1: None)
TableIndex(tv, n) ==
    IF n = 0 THEN -1
    ELSE IF tv.tag = "PlusZero" THEN n - 1
    ELSE IF tv.k > n THEN -1
    ELSE IF tv.k >= 1 THEN tv.k - 1
    ELSE IF -tv.k <= n THEN n + tv.k
    ELSE 0

\* the table has a row for the take value and the total: every case but
\* TakeNum(0) of a file that is not empty
InTable(tv, n) == ~(tv.tag = "TakeNum" /\ tv.k = 0 /\ n > 0)

\* C22 as stated: get_starting_index returns what the tested table gives:
\* None for total = 0 and for TakeNum(k) with k > total, total - 1 for
\* PlusZero, k - 1 for 1 <= k <= total, total + k for k < 0 with
\* |k| <= total, and 0 for k < 0 with |k| > total.
C22_TestedTable ==
    (pc = "start" /\ InTable(take_val, total)) =>
        start = IF TableIndex(take_val, total) = -1 THEN NoIndex
                ELSE Some(TableIndex(take_val, total))

\* C27 as stated: for every take value and total, a result Some(i) of
\* get_starting_index has i < total, and no conversion to u64 wraps.
C27_IndexInsideFile ==
    pc = "start" =>
        /\ start.kind \in {"Some", "None"}
        /\ start.kind = "Some" => start.i < total

\* the count is the numeral of n > 0 after the prefix
IsCountOf(prefix, n) == n > 0 /\ count = prefix \o to_decimal(n)

\* C28 as stated: a count N written without a sign and the count -N parse
\* to the same TakeNum(-N), the count +N parses to TakeNum(N); the default
\* -10 is TakeNum(-10), the last ten lines.
C28_UnsignedIsMinus ==
    pc \in {"take", "start", "illegal"} =>
        \A n \in 1..I64_MAX :
            /\ IsCountOf(<<>>, n) => take_val = TakeNum(-n)
            /\ IsCountOf(<<"-">>, n) => take_val = TakeNum(-n)
            /\ IsCountOf(<<"+">>, n) => take_val = TakeNum(n)

---------------------------------------------------------------------------
(* Claims about calr, checked under SpecCal *)

\* the plain decimal strings that denote the number n
IsDecimalOf(t, n) ==
    \E zeros \in 0..Len(t) :
        /\ \A i \in 1..zeros : t[i] = "0"
        /\ SubSeq(t, zeros + 1, Len(t)) = to_decimal(n)

IsIntegerString(t) == t # <<>> /\ \A i \in 1..Len(t) : t[i] \in AsciiDigits

HasSign(t) == t # <<>> /\ t[1] \in {"+", "-"}

SameLetter(a, b) ==
    \/ a = b
    \/ \E j \in 1..Len(UpperChars) : {a, b} = {UpperChars[j], LowerChars[j]}

NameStartsWith(name, t) ==
    /\ Len(t) <= Len(name)
    /\ \A i \in 1..Len(t) : SameLetter(name[i], t[i])

MonthsStarting(t) == {i \in 1..Len(MONTH_NAMES) : NameStartsWith(MONTH_NAMES[i], t)}

ParsedMonth == pc \in {"month", "usage"}

\* C23: parse_month returns n for every decimal string denoting n in 1..12,
\* fails with the message month "<input>" not in the range 1 through 12 for
\* every other non-negative integer string, and for a string that is no number
\* returns the month whose name starts with it, letter case aside, when there
\* is exactly one such month, and fails with Invalid month "<input>" otherwise.
C23_ParseMonthContract ==
    ParsedMonth =>
        /\ \A n \in 1..12 : IsDecimalOf(month, n) => result = Ok(n)
        /\ (IsIntegerString(month) /\ ~\E n \in 1..12 : IsDecimalOf(month, n))
               => (~result.ok /\ result.err = NotInRange(month))
        /\ (~IsIntegerString(month) /\ ~HasSign(month))
               => IF Cardinality(MonthsStarting(month)) = 1
                  THEN result = Ok(CHOOSE i \in MonthsStarting(month) : TRUE)
                  ELSE ~result.ok /\ result.err = InvalidMonth(month)

---------------------------------------------------------------------------
(* Claims about commr, checked under SpecComm *)

\* the lines an iterator has handed to the loop and the loop has reported
Consumed1 == file1_iter - (IF file1_line.some THEN 1 ELSE 0)
Consumed2 == file2_iter - (IF file2_line.some THEN 1 ELSE 0)

RECURSIVE Keep(_, _)
Keep(calls, cols) ==
    IF calls = <<>> THEN <<>>
    ELSE IF calls[1].col \in cols THEN <<calls[1]>> \o Keep(Tail(calls), cols)
    ELSE Keep(Tail(calls), cols)

\* the reports of the lines of file1, and of the lines of file2, in order
Reports1 == Keep(columns, {1, 3})
Reports2 == Keep(columns, {2, 3})

ReportedInOrder ==
    /\ Len(Reports1) = Consumed1
    /\ \A i \in 1..Len(Reports1) : Reports1[i].line = file1[i]
    /\ Len(Reports2) = Consumed2
    /\ \A i \in 1..Len(Reports2) :
           IF Reports2[i].col = 2 THEN Reports2[i].line = file2[i]
           ELSE compare_lines(Reports2[i].line, file2[i], config.insensitive) = "Equal"

\* C29: the merge loop ends after at most len(file1) + len(file2) turns that
\* report a line; a turn never leaves both files where they were; and each
\* line of file1 and of file2 is taken once, in file order, and reported once:
\* in column 1, in column 2 or, a pair comparing equal, together in column 3.
C29_MergeLoop ==
    /\ [](pc \in {"loop", "done"} =>
            /\ Len(columns) <= Len(file1) + Len(file2)
            /\ ReportedInOrder
            /\ pc = "loop" => ENABLED NextComm
            /\ pc = "done" => Consumed1 = Len(file1) /\ Consumed2 = Len(file2))
    /\ [][pc = "loop" /\ pc' = "loop" =>
            /\ Consumed1' >= Consumed1
            /\ Consumed2' >= Consumed2
            /\ Consumed1' + Consumed2' > Consumed1 + Consumed2
            /\ Len(columns') = Len(columns) + 1]_vars
    /\ <>(pc = "done")

C29_Witness ==
    /\ pc = "done"
    /\ Len(file1) = MaxFileLines
    /\ Len(file2) = MaxFileLines
    /\ {columns[i].col : i \in 1..Len(columns)} = {1, 2, 3}

---------------------------------------------------------------------------
(* Claims about headr, checked under SpecHead *)

\* the lines of a file, each with its terminator
RECURSIVE FileLines(_)
FileLines(t) ==
    IF t = <<>> THEN <<>>
    ELSE <<read_line(t, 0)>> \o FileLines(SubSeq(t, Len(read_line(t, 0)) + 1, Len(t)))

RECURSIVE Concat(_)
Concat(seq) == IF seq = <<>> THEN <<>> ELSE seq[1] \o Concat(Tail(seq))

FirstLines(t, n) == SubSeq(FileLines(t), 1, n)

\* a line without its line feed, and without its carriage return and line feed
StripLF(l) == IF l # <<>> /\ l[Len(l)] = LF THEN Front(l) ELSE l
StripCRLF(l) ==
    IF StripLF(l) # l /\ StripLF(l) # <<>> /\ StripLF(l)[Len(l) - 1] = CR
    THEN Front(StripLF(l))
    ELSE StripLF(l)

\* t is made of the given lines, whatever ends each of them
SameLines(t, lines) ==
    /\ Len(FileLines(t)) = Len(lines)
    /\ \A i \in 1..Len(lines) :
           StripLF(FileLines(t)[i]) \in {StripLF(lines[i]), StripCRLF(lines[i])}

\* C30: in line mode a count n >= 0 gives exactly the first min(n, t) lines
\* of a file of t lines, nothing for n = 0; a count -k gives the first
\* max(0, t - k) lines (compared line by line, whatever ends each line).
C30_FirstLines ==
    LET t == Len(FileLines(file.content))
        n == config.lines
    IN  /\ pc # "panic"
        /\ pc = "done" =>
              IF n >= 0
              THEN result = Concat(FirstLines(file.content, IF n < t THEN n ELSE t))
              ELSE SameLines(result,
                             FirstLines(file.content, IF t + n > 0 THEN t + n ELSE 0))

=============================================================================
